---------------------------- MODULE Spec2Model ----------------------------
(***************************************************************************)
(* Model of the crash-camera (EYE) image quantization core:                *)
(*   ColorUtils     colorToRgb, colorDistance, findClosestColor,           *)
(*                  buildPalette                                           *)
(*   ImageProcessor setDitherMethod, setPalette, applyDithering,           *)
(*                  applyThresholdDithering, applyErrorDiffusionDithering  *)
(*   ExportManager  exportRisographLayers                                  *)
(*                                                                         *)
(* JavaScript arrays are zero based; they are modelled as functions whose  *)
(* domain is 0..n-1 so that the index arithmetic of the source is kept.    *)
(***************************************************************************)
EXTENDS Integers, Sequences, FiniteSets, TLC

VARIABLES
  ditherMethod,   \* ImageProcessor.ditherMethod
  palette,        \* ImageProcessor.palette (Null until setPalette)
  imageData,      \* the ImageData the caller holds (Null: none): width, height, data
  before,         \* history: imageData as it was when the last applyDithering began
  outcome,        \* history: how the last applyDithering on imageData ended
  paletteWasSet,  \* history: TRUE once setPalette has been called
  returned,       \* history: the value the last applyDithering returned
  finalCanvas,    \* raster of the final canvas as getImageData reads it
  layers,         \* the layer masks written by the last exportRisographLayers
  queryRgb,       \* the colour a caller of findClosestColor asks about
  queryResult,    \* what findClosestColor returned for queryRgb and palette
  colors,         \* the five colours of the last setPalette (EYE.color1..color5)
  earlier,        \* history: an earlier applyDithering call, its arguments and result
  scan,           \* applyErrorDiffusionDithering in progress: its loop variables
  lifecycle,      \* EYE: which lifecycle callbacks have run
  dither_method,  \* EYE.dither_method
  eyeSize,        \* EYE.eye_width, EYE.eye_height
  imageProcessor, \* EYE.imageProcessor: TheImageProcessor or Null
  video_polling,  \* EYE.video_polling
  video_poll,     \* EYE.video_poll: the id of the last setInterval (Null: none)
  scratchCanvas,  \* raster of EYE.scratch_canvas (Null before openEYE)
  video,          \* CameraManager.video: Null or the element's srcObject and state
  stream,         \* CameraManager.stream: a stream id or Null
  intervals,      \* browser: the ids of the interval timers that are scheduled
  intervalCount,  \* browser: how many interval timers have been created
  streams,        \* browser: the camera streams handed out, each "live" or "stopped"
  requests,       \* browser: getUserMedia calls that are not settled yet
  lastPoll,       \* history: what the last pollVideo tick found and did
  upload,         \* history: what the user did with the upload controls
  attribute,      \* EYE: the dither-method attribute ("" when it is absent)
  inflight        \* pollVideo invocations that are suspended at their await

eyeVars == <<lifecycle, dither_method, eyeSize, imageProcessor, video_polling,
             video_poll, scratchCanvas, video, stream, intervals,
             intervalCount, streams, requests, lastPoll, upload, attribute,
             inflight>>

vars == <<ditherMethod, palette, imageData, before, outcome,
          paletteWasSet, returned, finalCanvas, layers, queryRgb, queryResult,
          colors, earlier, scan, eyeVars>>

----------------------------------------------------------------------------
(* Bounds of the model *)

MaxW == 3
MaxH == 3
\* interval timers created and camera streams handed out in a run of the element
MaxIntervals == 2
MaxStreams == 3

----------------------------------------------------------------------------
(* JavaScript values *)

\* null and undefined are represented by the empty tuple
Null == << >>

\* a JavaScript array literal: zero based
Arr(s) == [i \in 0..(Len(s) - 1) |-> s[i + 1]]

ArrLen(a) == Cardinality(DOMAIN a)

\* F applied to the value of v, which is computed once
Let(v, F(_)) == CHOOSE r \in {F(x) : x \in {v}} : TRUE

Max(a, b) == IF a >= b THEN a ELSE b
Min(a, b) == IF a <= b THEN a ELSE b

----------------------------------------------------------------------------
(* ColorUtils *)

\* Colour descriptors the callers use, with the RGB the canvas resolves them
\* to. A string that is not a CSS colour leaves fillStyle at its default
\* "#000000", so the fresh 1x1 canvas is filled with black.
CssColors ==
  [ black   |-> <<0, 0, 0>>,
    white   |-> <<255, 255, 255>>,
    red     |-> <<255, 0, 0>>,
    blue    |-> <<0, 0, 255>>,
    orange  |-> <<255, 165, 0>>,
    pink    |-> <<255, 192, 203>>,
    hffff01 |-> <<255, 255, 1>> ]

colorToRgb(color) ==
  IF color \in DOMAIN CssColors THEN Arr(CssColors[color])
  ELSE Arr(<<0, 0, 0>>)

\* colorDistance is Math.sqrt of the sum of the squared channel differences.
\* The sum is an integer in 0..195075 and Math.sqrt is strictly increasing on
\* that range in IEEE double arithmetic, so the distance is represented by
\* its square: every comparison of two distances is preserved.
colorDistance(rgb1, rgb2) ==
    (rgb1[0] - rgb2[0]) * (rgb1[0] - rgb2[0])
  + (rgb1[1] - rgb2[1]) * (rgb1[1] - rgb2[1])
  + (rgb1[2] - rgb2[2]) * (rgb1[2] - rgb2[2])

\* The loop of findClosestColor, from index i with the best index so far.
\* The returned colour is the array palette[closest], so the index identifies
\* the returned object.
\* mutant: the comparison is <=, so the last entry at minimum distance wins
RECURSIVE closestFrom_lastWins(_, _, _, _)
closestFrom_lastWins(rgb, pal, i, closest) ==
  IF i >= ArrLen(pal) THEN closest
  ELSE IF colorDistance(rgb, pal[i]) <= colorDistance(rgb, pal[closest])
       THEN closestFrom_lastWins(rgb, pal, i + 1, i)
       ELSE closestFrom_lastWins(rgb, pal, i + 1, closest)

\* mutant: the comparison is >, so the farthest entry is kept
RECURSIVE closestFrom_farthest(_, _, _, _)
closestFrom_farthest(rgb, pal, i, closest) ==
  IF i >= ArrLen(pal) THEN closest
  ELSE IF colorDistance(rgb, pal[i]) > colorDistance(rgb, pal[closest])
       THEN closestFrom_farthest(rgb, pal, i + 1, i)
       ELSE closestFrom_farthest(rgb, pal, i + 1, closest)

RECURSIVE closestFrom(_, _, _, _)
closestFrom(rgb, pal, i, closest) ==
  IF i >= ArrLen(pal) THEN closest
  ELSE IF colorDistance(rgb, pal[i]) < colorDistance(rgb, pal[closest])
       THEN closestFrom(rgb, pal, i + 1, i)
       ELSE closestFrom(rgb, pal, i + 1, closest)

\* mutant: the loop starts at index 2 and never looks at entry 1
findClosestIndex_skipsOne(rgb, pal) == closestFrom(rgb, pal, 2, 0)

findClosestIndex(rgb, pal) == closestFrom(rgb, pal, 1, 0)

findClosestColor(rgb, pal) == pal[findClosestIndex(rgb, pal)]

\* mutant: white is appended to the inks, not prepended
buildPalette_whiteLast(color1, color2, color3, color4, color5) ==
  Arr(<< colorToRgb(color1),
         colorToRgb(color2),
         colorToRgb(color3),
         colorToRgb(color4),
         colorToRgb(color5),
         Arr(<<255, 255, 255>>) >>)

buildPalette(color1, color2, color3, color4, color5) ==
  Arr(<< Arr(<<255, 255, 255>>),
         colorToRgb(color1),
         colorToRgb(color2),
         colorToRgb(color3),
         colorToRgb(color4),
         colorToRgb(color5) >>)

----------------------------------------------------------------------------
(* ImageProcessor: the diffusion kernels *)

\* one kernel entry { x, y, factor } with factor = num/den
\* mutant: the horizontal offsets of the tables are reversed
Tap_backward(dx, dy, num, den) == [x |-> -dx, y |-> dy, num |-> num, den |-> den]

Tap(dx, dy, num, den) == [x |-> dx, y |-> dy, num |-> num, den |-> den]

getDiffusionMatrices ==
  ( "floyd-steinberg" :> Arr(<<
        Tap(1, 0, 7, 16), Tap(-1, 1, 3, 16), Tap(0, 1, 5, 16),
        Tap(1, 1, 1, 16) >>) )
  @@
  ( "atkinson" :> Arr(<<
        Tap(1, 0, 1, 8), Tap(2, 0, 1, 8), Tap(-1, 1, 1, 8), Tap(0, 1, 1, 8),
        Tap(1, 1, 1, 8), Tap(0, 2, 1, 8) >>) )
  @@
  ( "burkes" :> Arr(<<
        Tap(1, 0, 8, 32), Tap(2, 0, 4, 32), Tap(-2, 1, 2, 32),
        Tap(-1, 1, 4, 32), Tap(0, 1, 8, 32), Tap(1, 1, 4, 32),
        Tap(2, 1, 2, 32) >>) )
  @@
  ( "sierra" :> Arr(<<
        Tap(1, 0, 5, 32), Tap(2, 0, 3, 32), Tap(-2, 1, 2, 32),
        Tap(-1, 1, 4, 32), Tap(0, 1, 5, 32), Tap(1, 1, 4, 32),
        Tap(2, 1, 2, 32), Tap(-1, 2, 2, 32), Tap(0, 2, 3, 32),
        Tap(1, 2, 2, 32) >>) )
  @@
  ( "stucki" :> Arr(<<
        Tap(1, 0, 8, 42), Tap(2, 0, 4, 42), Tap(-2, 1, 2, 42),
        Tap(-1, 1, 4, 42), Tap(0, 1, 8, 42), Tap(1, 1, 4, 42),
        Tap(2, 1, 2, 42), Tap(-2, 2, 1, 42), Tap(-1, 2, 2, 42),
        Tap(0, 2, 4, 42), Tap(1, 2, 2, 42), Tap(2, 2, 1, 42) >>) )
  @@
  ( "jarvis" :> Arr(<<
        Tap(1, 0, 7, 48), Tap(2, 0, 5, 48), Tap(-2, 1, 3, 48),
        Tap(-1, 1, 5, 48), Tap(0, 1, 7, 48), Tap(1, 1, 5, 48),
        Tap(2, 1, 3, 48), Tap(-2, 2, 1, 48), Tap(-1, 2, 3, 48),
        Tap(0, 2, 5, 48), Tap(1, 2, 3, 48), Tap(2, 2, 1, 48) >>) )

\* Property names every object literal inherits from Object.prototype: the
\* lookup diffusionMatrices[name] finds a function or an object under them.
ObjectPrototypeKeys ==
  { "constructor", "toString", "toLocaleString", "valueOf", "hasOwnProperty",
    "isPrototypeOf", "propertyIsEnumerable", "__proto__" }

\* diffusionMatrices[method] || diffusionMatrices['floyd-steinberg']
\* kind "array": a kernel; kind "object": a truthy value without forEach.
selectMatrix(method) ==
  IF method \in DOMAIN getDiffusionMatrices
  THEN [kind |-> "array", taps |-> getDiffusionMatrices[method]]
  ELSE IF method \in ObjectPrototypeKeys
       THEN [kind |-> "object", taps |-> Null]
       ELSE [kind |-> "array", taps |-> getDiffusionMatrices["floyd-steinberg"]]

----------------------------------------------------------------------------
(* ImageData.data is a Uint8ClampedArray *)

\* IEEE double arithmetic agrees with exact arithmetic on every store
\* data + error * factor of the six kernels (error in -255..255, data in
\* 0..255) except here: -216 * (7/48) is computed as -31.500000000000004, so
\* the sums that are exactly k + 1/2 for k in 1..31 fall just below the half.
DoubleBelowHalf(value, error, num, den) ==
  /\ num = 7 /\ den = 48 /\ error = -216
  /\ value \in 33..63

\* mutant: no clamp, and the element store wraps as in a Uint8Array
StoreClamped_wrapping(value, error, num, den) ==
  LET n == value * den + error * num + 256 * den
      q == n \div den
      r == n % den
  IN  (IF 2 * r < den THEN q
       ELSE IF 2 * r > den THEN q + 1
       ELSE IF q % 2 = 0 THEN q ELSE q + 1) % 256

\* data[i] = Math.max(0, Math.min(255, value + error * factor)) with
\* factor = num/den: the clamp, then the conversion of the element store,
\* which rounds to the nearest integer, a tie going to the even one.
StoreClamped(value, error, num, den) ==
  LET n == Max(0, Min(255 * den, value * den + error * num))
      q == n \div den
      r == n % den
  IN  IF 2 * r < den THEN q
      ELSE IF 2 * r > den THEN q + 1
      ELSE IF DoubleBelowHalf(value, error, num, den) THEN q
      ELSE IF q % 2 = 0 THEN q ELSE q + 1

----------------------------------------------------------------------------
(* ImageProcessor *)

\* mutant: the pixel stride is 3, as if the buffer had no alpha channel
thresholdPixel_stride3(data, k, pal) ==
  LET idx      == k * 3
      oldPixel == Arr(<<data[idx], data[idx + 1], data[idx + 2]>>)
  IN  Let(findClosestColor(oldPixel, pal), LAMBDA newPixel :
        [data EXCEPT ![idx]     = newPixel[0],
                     ![idx + 1] = newPixel[1],
                     ![idx + 2] = newPixel[2]])

\* the body of the loops of applyThresholdDithering for pixel k = y*width+x
thresholdPixel(data, k, pal) ==
  LET idx      == k * 4
      oldPixel == Arr(<<data[idx], data[idx + 1], data[idx + 2]>>)
  IN  Let(findClosestColor(oldPixel, pal), LAMBDA newPixel :
        [data EXCEPT ![idx]     = newPixel[0],
                     ![idx + 1] = newPixel[1],
                     ![idx + 2] = newPixel[2]])

\* the loops of applyThresholdDithering from pixel k on (y outer, x inner)
RECURSIVE thresholdFrom(_, _, _, _)
thresholdFrom(data, k, n, pal) ==
  IF k >= n THEN data
  ELSE Let(thresholdPixel(data, k, pal), LAMBDA d :
         thresholdFrom(d, k + 1, n, pal))

applyThresholdDithering(img, pal) ==
  [ threw |-> "none",
    value |-> [img EXCEPT !.data =
                 thresholdFrom(img.data, 0, img.width * img.height, pal)] ]

\* mutant: the horizontal offset is subtracted, so the error of a pixel goes
\* to pixels that have been written already
applyTap_mirrored(data, width, height, x, y, tap, errorR, errorG, errorB) ==
  LET x2 == x - tap.x
      y2 == y + tap.y
  IN  IF x2 >= 0 /\ x2 < width /\ y2 >= 0 /\ y2 < height
      THEN LET idx2 == (y2 * width + x2) * 4
           IN  [data EXCEPT
                 ![idx2]     = StoreClamped(data[idx2], errorR, tap.num, tap.den),
                 ![idx2 + 1] = StoreClamped(data[idx2 + 1], errorG, tap.num, tap.den),
                 ![idx2 + 2] = StoreClamped(data[idx2 + 2], errorB, tap.num, tap.den)]
      ELSE data

\* mutant: the error of the blue channel is added to the alpha sample too
applyTap_alpha(data, width, height, x, y, tap, errorR, errorG, errorB) ==
  LET x2 == x + tap.x
      y2 == y + tap.y
  IN  IF x2 >= 0 /\ x2 < width /\ y2 >= 0 /\ y2 < height
      THEN LET idx2 == (y2 * width + x2) * 4
           IN  [data EXCEPT
                 ![idx2]     = StoreClamped(data[idx2], errorR, tap.num, tap.den),
                 ![idx2 + 1] = StoreClamped(data[idx2 + 1], errorG, tap.num, tap.den),
                 ![idx2 + 2] = StoreClamped(data[idx2 + 2], errorB, tap.num, tap.den),
                 ![idx2 + 3] = StoreClamped(data[idx2 + 3], errorB, tap.num, tap.den)]
      ELSE data

\* mutant: only the index is tested, so a target left or right of the row
\* is wrapped onto the neighbouring row
applyTap_wrapped(data, width, height, x, y, tap, errorR, errorG, errorB) ==
  LET x2 == x + tap.x
      y2 == y + tap.y
      idx2 == (y2 * width + x2) * 4
  IN  IF idx2 >= 0 /\ idx2 < width * height * 4
      THEN [data EXCEPT
             ![idx2]     = StoreClamped(data[idx2], errorR, tap.num, tap.den),
             ![idx2 + 1] = StoreClamped(data[idx2 + 1], errorG, tap.num, tap.den),
             ![idx2 + 2] = StoreClamped(data[idx2 + 2], errorB, tap.num, tap.den)]
      ELSE data

\* the callback of matrix.forEach for one kernel entry
applyTap(data, width, height, x, y, tap, errorR, errorG, errorB) ==
  LET x2 == x + tap.x
      y2 == y + tap.y
  IN  IF x2 >= 0 /\ x2 < width /\ y2 >= 0 /\ y2 < height
      THEN LET idx2 == (y2 * width + x2) * 4
           IN  [data EXCEPT
                 ![idx2]     = StoreClamped(data[idx2], errorR, tap.num, tap.den),
                 ![idx2 + 1] = StoreClamped(data[idx2 + 1], errorG, tap.num, tap.den),
                 ![idx2 + 2] = StoreClamped(data[idx2 + 2], errorB, tap.num, tap.den)]
      ELSE data

\* matrix.forEach from entry i on
RECURSIVE forEachTap(_, _, _, _, _, _, _, _, _, _)
forEachTap(data, width, height, x, y, taps, i, errorR, errorG, errorB) ==
  IF i >= ArrLen(taps) THEN data
  ELSE Let(applyTap(data, width, height, x, y, taps[i], errorR, errorG, errorB),
           LAMBDA d : forEachTap(d, width, height, x, y, taps, i + 1,
                                 errorR, errorG, errorB))

\* mutant: the error is the distance of the new colour from white, not from
\* the colour the pixel had
diffusePixel_errorFromWhite(data, width, height, k, pal, matrix) ==
  LET x        == k % width
      y        == k \div width
      idx      == (y * width + x) * 4
      oldPixel == Arr(<<data[idx], data[idx + 1], data[idx + 2]>>)
  IN  Let(findClosestColor(oldPixel, pal), LAMBDA newPixel :
        LET written == [data EXCEPT ![idx]     = newPixel[0],
                                    ![idx + 1] = newPixel[1],
                                    ![idx + 2] = newPixel[2]]
            errorR  == 255 - newPixel[0]
            errorG  == 255 - newPixel[1]
            errorB  == 255 - newPixel[2]
        IN  IF matrix.kind # "array"
            THEN [threw |-> "TypeError", data |-> written]
            ELSE [threw |-> "none",
                  data  |-> forEachTap(written, width, height, x, y,
                                       matrix.taps, 0, errorR, errorG, errorB)])

\* the body of the loops of applyErrorDiffusionDithering for pixel
\* k = y*width+x. A matrix that is no array has no forEach: the call throws
\* a TypeError after the pixel has been replaced.
diffusePixel(data, width, height, k, pal, matrix) ==
  LET x        == k % width
      y        == k \div width
      idx      == (y * width + x) * 4
      oldPixel == Arr(<<data[idx], data[idx + 1], data[idx + 2]>>)
  IN  Let(findClosestColor(oldPixel, pal), LAMBDA newPixel :
        LET written == [data EXCEPT ![idx]     = newPixel[0],
                                    ![idx + 1] = newPixel[1],
                                    ![idx + 2] = newPixel[2]]
            errorR  == oldPixel[0] - newPixel[0]
            errorG  == oldPixel[1] - newPixel[1]
            errorB  == oldPixel[2] - newPixel[2]
        IN  IF matrix.kind # "array"
            THEN [threw |-> "TypeError", data |-> written]
            ELSE [threw |-> "none",
                  data  |-> forEachTap(written, width, height, x, y,
                                       matrix.taps, 0, errorR, errorG, errorB)])

\* the loops of applyErrorDiffusionDithering from pixel k on (y outer, x inner)
RECURSIVE diffuseFrom(_, _, _, _, _, _)
diffuseFrom(data, width, height, k, pal, matrix) ==
  IF k >= width * height THEN [threw |-> "none", data |-> data]
  ELSE Let(diffusePixel(data, width, height, k, pal, matrix), LAMBDA r :
         IF r.threw # "none" THEN r
         ELSE diffuseFrom(r.data, width, height, k + 1, pal, matrix))

applyErrorDiffusionDithering(img, pal, method) ==
  Let(diffuseFrom(img.data, img.width, img.height, 0, pal, selectMatrix(method)),
      LAMBDA r : [ threw |-> r.threw, value |-> [img EXCEPT !.data = r.data] ])

\* mutant: the palette is checked on the diffusion route only
applyDithering_uncheckedThreshold(img, pal, method) ==
  IF method = "threshold"
  THEN IF pal = Null THEN [threw |-> "none", value |-> img]
       ELSE applyThresholdDithering(img, pal)
  ELSE IF pal = Null
       THEN [threw |-> "PaletteNotSet", value |-> img]
       ELSE applyErrorDiffusionDithering(img, pal, method)

\* The result of a call: threw is "none" when it returned, and value is then
\* the object it returned; the ImageData is mutated in place, so value is
\* also the state of the caller's object after a call that threw.
applyDithering(img, pal, method) ==
  IF pal = Null
  THEN [threw |-> "PaletteNotSet", value |-> img]
  ELSE IF method = "threshold"
       THEN applyThresholdDithering(img, pal)
       ELSE applyErrorDiffusionDithering(img, pal, method)

----------------------------------------------------------------------------
(* The original component: class EYE before it was split into modules.     *)
(* Its methods work on the fields color1..color5 and dither_method of the  *)
(* element; they are given here as the arguments ink and method.           *)

Original_colorToRgb(color) ==
  IF color \in DOMAIN CssColors THEN Arr(CssColors[color])
  ELSE Arr(<<0, 0, 0>>)

\* the square of the distance, as in colorDistance
Original_colorDistance(rgb1, rgb2) ==
    (rgb1[0] - rgb2[0]) * (rgb1[0] - rgb2[0])
  + (rgb1[1] - rgb2[1]) * (rgb1[1] - rgb2[1])
  + (rgb1[2] - rgb2[2]) * (rgb1[2] - rgb2[2])

\* the loop of EYE.findClosestColor from index i on
RECURSIVE Original_closestFrom(_, _, _, _, _)
Original_closestFrom(rgb, pal, i, closestColor, minDistance) ==
  IF i >= ArrLen(pal) THEN closestColor
  ELSE Let(Original_colorDistance(rgb, pal[i]), LAMBDA distance :
         IF distance < minDistance
         THEN Original_closestFrom(rgb, pal, i + 1, pal[i], distance)
         ELSE Original_closestFrom(rgb, pal, i + 1, closestColor, minDistance))

Original_findClosestColor(rgb, pal) ==
  Original_closestFrom(rgb, pal, 1, pal[0], Original_colorDistance(rgb, pal[0]))

\* the loops of EYE.applyThresholdDithering from pixel k = y*width+x on
RECURSIVE Original_thresholdFrom(_, _, _, _)
Original_thresholdFrom(data, k, n, pal) ==
  IF k >= n THEN data
  ELSE LET idx      == k * 4
           oldPixel == Arr(<<data[idx], data[idx + 1], data[idx + 2]>>)
       IN  Let(Original_findClosestColor(oldPixel, pal), LAMBDA newPixel :
             Let([data EXCEPT ![idx]     = newPixel[0],
                              ![idx + 1] = newPixel[1],
                              ![idx + 2] = newPixel[2]],
                 LAMBDA d : Original_thresholdFrom(d, k + 1, n, pal)))

Original_applyThresholdDithering(img, pal) ==
  [ threw |-> "none",
    value |-> [img EXCEPT !.data =
                 Original_thresholdFrom(img.data, 0, img.width * img.height, pal)] ]

\* the object literal diffusionMatrices of EYE.applyErrorDiffusionDithering
Original_diffusionMatrices ==
  ( "floyd-steinberg" :> Arr(<<
        Tap(1, 0, 7, 16), Tap(-1, 1, 3, 16), Tap(0, 1, 5, 16),
        Tap(1, 1, 1, 16) >>) )
  @@
  ( "atkinson" :> Arr(<<
        Tap(1, 0, 1, 8), Tap(2, 0, 1, 8), Tap(-1, 1, 1, 8),
        Tap(0, 1, 1, 8), Tap(1, 1, 1, 8), Tap(0, 2, 1, 8) >>) )
  @@
  ( "burkes" :> Arr(<<
        Tap(1, 0, 8, 32), Tap(2, 0, 4, 32), Tap(-2, 1, 2, 32),
        Tap(-1, 1, 4, 32), Tap(0, 1, 8, 32), Tap(1, 1, 4, 32),
        Tap(2, 1, 2, 32) >>) )
  @@
  ( "sierra" :> Arr(<<
        Tap(1, 0, 5, 32), Tap(2, 0, 3, 32), Tap(-2, 1, 2, 32),
        Tap(-1, 1, 4, 32), Tap(0, 1, 5, 32), Tap(1, 1, 4, 32),
        Tap(2, 1, 2, 32), Tap(-1, 2, 2, 32), Tap(0, 2, 3, 32),
        Tap(1, 2, 2, 32) >>) )
  @@
  ( "stucki" :> Arr(<<
        Tap(1, 0, 8, 42), Tap(2, 0, 4, 42), Tap(-2, 1, 2, 42),
        Tap(-1, 1, 4, 42), Tap(0, 1, 8, 42), Tap(1, 1, 4, 42),
        Tap(2, 1, 2, 42), Tap(-2, 2, 1, 42), Tap(-1, 2, 2, 42),
        Tap(0, 2, 4, 42), Tap(1, 2, 2, 42), Tap(2, 2, 1, 42) >>) )
  @@
  ( "jarvis" :> Arr(<<
        Tap(1, 0, 7, 48), Tap(2, 0, 5, 48), Tap(-2, 1, 3, 48),
        Tap(-1, 1, 5, 48), Tap(0, 1, 7, 48), Tap(1, 1, 5, 48),
        Tap(2, 1, 3, 48), Tap(-2, 2, 1, 48), Tap(-1, 2, 3, 48),
        Tap(0, 2, 5, 48), Tap(1, 2, 3, 48), Tap(2, 2, 1, 48) >>) )

\* diffusionMatrices[method] || diffusionMatrices['floyd-steinberg']
Original_selectMatrix(method) ==
  IF method \in DOMAIN Original_diffusionMatrices
  THEN [kind |-> "array", taps |-> Original_diffusionMatrices[method]]
  ELSE IF method \in ObjectPrototypeKeys
       THEN [kind |-> "object", taps |-> Null]
       ELSE [kind |-> "array",
             taps |-> Original_diffusionMatrices["floyd-steinberg"]]

\* matrix.forEach from entry i on, for the pixel (x, y)
RECURSIVE Original_forEachTap(_, _, _, _, _, _, _, _, _, _)
Original_forEachTap(data, width, height, x, y, taps, i, errorR, errorG, errorB) ==
  IF i >= ArrLen(taps) THEN data
  ELSE LET x2 == x + taps[i].x
           y2 == y + taps[i].y
           f  == taps[i]
       IN  IF x2 >= 0 /\ x2 < width /\ y2 >= 0 /\ y2 < height
           THEN LET idx2 == (y2 * width + x2) * 4
                IN  Let([data EXCEPT
                           ![idx2]     = StoreClamped(data[idx2], errorR, f.num, f.den),
                           ![idx2 + 1] = StoreClamped(data[idx2 + 1], errorG, f.num, f.den),
                           ![idx2 + 2] = StoreClamped(data[idx2 + 2], errorB, f.num, f.den)],
                        LAMBDA d : Original_forEachTap(d, width, height, x, y, taps,
                                                       i + 1, errorR, errorG, errorB))
           ELSE Original_forEachTap(data, width, height, x, y, taps, i + 1,
                                    errorR, errorG, errorB)

\* the loops of EYE.applyErrorDiffusionDithering from pixel k = y*width+x on
RECURSIVE Original_diffuseFrom(_, _, _, _, _, _)
Original_diffuseFrom(data, width, height, k, pal, matrix) ==
  IF k >= width * height THEN [threw |-> "none", data |-> data]
  ELSE
    LET x        == k % width
        y        == k \div width
        idx      == (y * width + x) * 4
        oldPixel == Arr(<<data[idx], data[idx + 1], data[idx + 2]>>)
    IN  Let(Original_findClosestColor(oldPixel, pal), LAMBDA newPixel :
          Let([data EXCEPT ![idx]     = newPixel[0],
                           ![idx + 1] = newPixel[1],
                           ![idx + 2] = newPixel[2]],
              LAMBDA written :
                IF matrix.kind # "array"
                THEN [threw |-> "TypeError", data |-> written]
                ELSE Let(Original_forEachTap(written, width, height, x, y,
                           matrix.taps, 0,
                           oldPixel[0] - newPixel[0],
                           oldPixel[1] - newPixel[1],
                           oldPixel[2] - newPixel[2]),
                         LAMBDA d : Original_diffuseFrom(d, width, height, k + 1,
                                                         pal, matrix))))

Original_applyErrorDiffusionDithering(img, pal, method) ==
  Let(Original_diffuseFrom(img.data, img.width, img.height, 0, pal,
                           Original_selectMatrix(method)),
      LAMBDA r : [ threw |-> r.threw, value |-> [img EXCEPT !.data = r.data] ])

\* EYE.applyDithering: the palette is built from the five colours in every
\* call
Original_applyDithering(img, ink, method) ==
  LET pal == Arr(<< Arr(<<255, 255, 255>>),
                    Original_colorToRgb(ink[1]),
                    Original_colorToRgb(ink[2]),
                    Original_colorToRgb(ink[3]),
                    Original_colorToRgb(ink[4]),
                    Original_colorToRgb(ink[5]) >>)
  IN  IF method = "threshold"
      THEN Original_applyThresholdDithering(img, pal)
      ELSE Original_applyErrorDiffusionDithering(img, pal, method)

----------------------------------------------------------------------------
(* The callers' inputs *)

\* dither-method names a caller may select: the seven documented ones, an
\* unknown one and one that Object.prototype defines
Methods ==
  { "floyd-steinberg", "atkinson", "burkes", "sierra", "stucki", "jarvis",
    "threshold", "nonexistent", "constructor" }

\* the five ink colours a caller may configure
InkChoices ==
  { <<"black", "orange", "blue", "pink", "red">>,
    <<"black", "red", "blue", "hffff01", "notacolor">>,
    <<"white", "orange", "red", "red", "blue">> }

Palettes ==
  { buildPalette(ink[1], ink[2], ink[3], ink[4], ink[5]) : ink \in InkChoices }

\* RGBA pixels of the source images (each a tuple <<r, g, b, a>>)
Pixels ==
  Arr(<< <<10, 10, 10, 255>>,
         <<250, 250, 250, 255>>,
         <<128, 0, 128, 0>>,
         <<255, 255, 128, 77>>,
         <<255, 165, 0, 255>>,
         <<39, 57, 200, 128>>,
         <<255, 255, 255, 255>> >>)

\* an ImageData of width x height whose pixel k is Pixels[(a + b*k) mod n]
SourceImage(width, height, a, b) ==
  [ width  |-> width,
    height |-> height,
    data   |-> [i \in 0..(width * height * 4 - 1) |->
                  Pixels[(a + b * (i \div 4)) % ArrLen(Pixels)][(i % 4) + 1]] ]

\* b = 0: one colour throughout; b = 1: the pixels in turn
Strides == {0, 1}

SourceImages ==
  { SourceImage(w, h, a, b) :
      w \in 1..MaxW, h \in 1..MaxH,
      a \in DOMAIN Pixels, b \in Strides }

----------------------------------------------------------------------------
(* The ImageProcessor as its caller drives it.                             *)
(* The caller's use of an ImageData is synchronous, as in EYE.pollVideo:   *)
(* it obtains the ImageData, has it dithered (here: one or more times) and *)
(* lets go of it before any other callback can change the processor.       *)

\* the one ImageProcessor object of an element
TheImageProcessor == <<"ImageProcessor">>

\* null in a field that holds a stream (streams are numbered from one), and
\* in the field that holds the id of setInterval (ids are positive)
NoStream == 0
NoTimer == 0

\* no getUserMedia call is pending
NoRequests == [primary |-> 0, fallback |-> 0, enumerate |-> 0]

\* no EYE element is part of the run: the processor is driven directly
NoEye ==
  /\ lifecycle = "none"
  /\ dither_method = Null
  /\ eyeSize = Null
  /\ imageProcessor = TheImageProcessor
  /\ video_polling = FALSE
  /\ video_poll = NoTimer
  /\ scratchCanvas = Null
  /\ video = Null
  /\ stream = NoStream
  /\ intervals = {}
  /\ intervalCount = 0
  /\ streams = << >>
  /\ requests = NoRequests
  /\ lastPoll = Null
  /\ upload = "none"
  /\ attribute = ""
  /\ inflight = << >>

Init ==
  /\ ditherMethod = "floyd-steinberg"
  /\ palette = Null
  /\ imageData = Null
  /\ before = Null
  /\ outcome = "idle"
  /\ paletteWasSet = FALSE
  /\ returned = Null
  /\ finalCanvas = Null
  /\ layers = Null
  /\ queryRgb = Null
  /\ queryResult = Null
  /\ colors = Null
  /\ earlier = Null
  /\ scan = Null
  /\ NoEye

\* the caller obtains a fresh ImageData (getImageData)
GetImageData(img) ==
  /\ imageData = Null
  /\ imageData' = img
  /\ before' = Null
  /\ outcome' = "idle"
  /\ returned' = Null
  /\ UNCHANGED <<ditherMethod, palette, paletteWasSet, finalCanvas, layers,
                 queryRgb, queryResult, colors>>
  /\ UNCHANGED <<scan, eyeVars>>

\* the caller's use of the ImageData ends
ReleaseImageData ==
  /\ imageData # Null
  /\ imageData' = Null
  /\ before' = Null
  /\ outcome' = "idle"
  /\ returned' = Null
  /\ UNCHANGED <<ditherMethod, palette, paletteWasSet, finalCanvas, layers,
                 queryRgb, queryResult, colors>>
  /\ UNCHANGED <<scan, eyeVars>>

\* mutant: selecting a method drops the palette
SetDitherMethod_clearsPalette(method) ==
  /\ imageData = Null
  /\ ditherMethod' = method
  /\ palette' = Null
  /\ UNCHANGED <<imageData, before, outcome, paletteWasSet, returned,
                 finalCanvas, layers, queryRgb, queryResult, colors>>
  /\ UNCHANGED <<scan, eyeVars>>

SetDitherMethod(method) ==
  /\ imageData = Null
  /\ ditherMethod' = method
  /\ UNCHANGED <<palette, imageData, before, outcome, paletteWasSet, returned,
                 finalCanvas, layers, queryRgb, queryResult, colors>>
  /\ UNCHANGED <<scan, eyeVars>>

SetPalette(ink) ==
  /\ imageData = Null
  /\ palette' = buildPalette(ink[1], ink[2], ink[3], ink[4], ink[5])
  /\ paletteWasSet' = TRUE
  /\ colors' = ink
  /\ UNCHANGED <<ditherMethod, imageData, before, outcome, returned,
                 finalCanvas, layers, queryRgb, queryResult>>
  /\ UNCHANGED <<scan, eyeVars>>

\* the effect of a call of applyDithering that ended as r says
Called(r) ==
  /\ imageData' = r.value
  /\ before' = imageData
  /\ outcome' = IF r.threw = "none" THEN "returned" ELSE r.threw
  /\ returned' = IF r.threw = "none" THEN r.value ELSE Null

ApplyDithering ==
  /\ imageData # Null
  /\ Called(applyDithering(imageData, palette, ditherMethod))
  /\ UNCHANGED <<ditherMethod, palette, paletteWasSet, finalCanvas, layers,
                 queryRgb, queryResult, colors>>
  /\ UNCHANGED <<scan, eyeVars>>

Next ==
  \/ /\ \E img \in SourceImages : GetImageData(img)
     /\ UNCHANGED earlier
  \/ /\ ReleaseImageData
     /\ UNCHANGED earlier
  \/ /\ \E method \in Methods : SetDitherMethod(method)
     /\ UNCHANGED earlier
  \/ /\ \E ink \in InkChoices : SetPalette(ink)
     /\ UNCHANGED earlier
  \/ /\ ApplyDithering
     /\ UNCHANGED earlier

Spec == Init /\ [][Next]_vars

----------------------------------------------------------------------------
(* The same processor and caller, with one earlier call kept for comparison *)

ProbeImages == { SourceImage(2, 1, 0, 1), SourceImage(2, 2, 3, 1) }

ProbeMethods == { "threshold", "floyd-steinberg", "jarvis" }

ProbeInks ==
  { <<"black", "orange", "blue", "pink", "red">>,
    <<"white", "orange", "red", "red", "blue">> }

\* the call that the step made, as it is kept in earlier; other says that
\* operations have followed the call
CallMade ==
  [ input   |-> imageData,
    palette |-> palette,
    method  |-> ditherMethod,
    outcome |-> outcome',
    value   |-> imageData',
    other   |-> FALSE ]

Aged(call) == IF call = Null THEN Null ELSE [call EXCEPT !.other = TRUE]

NextCalls ==
  \/ /\ \E img \in ProbeImages : GetImageData(img)
     /\ earlier' = Aged(earlier)
  \/ /\ ReleaseImageData
     /\ earlier' = Aged(earlier)
  \/ /\ \E method \in ProbeMethods : SetDitherMethod(method)
     /\ earlier' = Aged(earlier)
  \/ /\ \E ink \in ProbeInks : SetPalette(ink)
     /\ earlier' = Aged(earlier)
  \/ /\ ApplyDithering
     /\ earlier' \in {CallMade, Aged(earlier)}

SpecCalls == Init /\ [][NextCalls]_vars

----------------------------------------------------------------------------
(* ColorUtils.findClosestColor as a function of its arguments *)

\* channel values of the colours asked about
Channels == {0, 1, 127, 128, 254, 255}

RgbInputs == { Arr(<<r, g, b>>) : r \in Channels, g \in Channels, b \in Channels }

InitColor ==
  /\ queryRgb \in RgbInputs
  /\ palette \in Palettes
  /\ queryResult = Null
  /\ ditherMethod = "floyd-steinberg"
  /\ imageData = Null
  /\ before = Null
  /\ outcome = "idle"
  /\ paletteWasSet = TRUE
  /\ returned = Null
  /\ finalCanvas = Null
  /\ layers = Null
  /\ colors = Null
  /\ earlier = Null
  /\ scan = Null
  /\ NoEye

\* the returned color is the array palette[queryResult.index]
FindClosestColor ==
  /\ queryResult = Null
  /\ queryResult' = [ index |-> findClosestIndex(queryRgb, palette),
                  color |-> findClosestColor(queryRgb, palette) ]
  /\ UNCHANGED <<ditherMethod, palette, imageData, before, outcome,
                 paletteWasSet, returned, finalCanvas, layers, queryRgb, colors>>
  /\ UNCHANGED <<scan, eyeVars>>

NextColor == FindClosestColor /\ UNCHANGED earlier

SpecColor == InitColor /\ [][NextColor]_vars

----------------------------------------------------------------------------
(* ExportManager.exportRisographLayers *)

\* ctx.getImageData(0, 0, sw, sh): the pixels outside the canvas are
\* transparent black
getImageData(canvas, sw, sh) ==
  [ width  |-> sw,
    height |-> sh,
    data   |-> [i \in 0..(sw * sh * 4 - 1) |->
                  LET x == (i \div 4) % sw
                      y == (i \div 4) \div sw
                  IN  IF x < canvas.width /\ y < canvas.height
                      THEN canvas.data[(y * canvas.width + x) * 4 + (i % 4)]
                      ELSE 0] ]

\* mutant: the blue channel is left out of the comparison
layerData_ignoresBlue(data, targetColor) ==
  [i \in DOMAIN data |->
     LET p == i - (i % 4)
     IN  IF /\ data[p] = targetColor[0]
            /\ data[p + 1] = targetColor[1]
         THEN (IF i % 4 = 3 THEN 255 ELSE 0)
         ELSE 255]

\* mutant: a transparent source pixel gets no ink, and the mask takes over
\* the alpha of the source
layerData_usesAlpha(data, targetColor) ==
  [i \in DOMAIN data |->
     LET p == i - (i % 4)
     IN  IF i % 4 = 3 THEN data[p + 3]
         ELSE IF /\ data[p] = targetColor[0]
                 /\ data[p + 1] = targetColor[1]
                 /\ data[p + 2] = targetColor[2]
                 /\ data[p + 3] # 0
              THEN 0
              ELSE 255]

\* the pixel loop of one layer: the samples of the new layerImageData
layerData(data, targetColor) ==
  [i \in DOMAIN data |->
     LET p == i - (i % 4)
     IN  IF /\ data[p] = targetColor[0]
            /\ data[p + 1] = targetColor[1]
            /\ data[p + 2] = targetColor[2]
         THEN (IF i % 4 = 3 THEN 255 ELSE 0)
         ELSE 255]

\* mutant: the loop starts at layerIndex 0, so a layer is cut for the paper
\* too and the layers are counted from 0
exportRisographLayers_fromZero(canvas, color1, color2, color3, color4, color5, eyeWidth, eyeHeight) ==
  IF canvas = Null
  THEN [threw |-> "NotInitialized", source |-> Null, masks |-> Null]
  ELSE
    LET imgData    == getImageData(canvas, eyeWidth, eyeHeight)
        pal        == buildPalette(color1, color2, color3, color4, color5)
        colorNames == Arr(<<"white", color1, color2, color3, color4, color5>>)
    IN  [ threw  |-> "none",
          source |-> imgData,
          masks  |-> [n \in 0..(ArrLen(pal) - 1) |->
                        LET layerIndex == n
                        IN  [ layerIndex |-> layerIndex,
                              download   |-> <<"risograph-layer", layerIndex,
                                               colorNames[layerIndex], "png">>,
                              width      |-> imgData.width,
                              height     |-> imgData.height,
                              data       |-> layerData(imgData.data,
                                                       pal[layerIndex]) ]] ]

\* The layer canvases in the order the loop creates them, each with the
\* name of its download; source is the ImageData the layers were cut from.
exportRisographLayers(canvas, color1, color2, color3, color4, color5, eyeWidth, eyeHeight) ==
  IF canvas = Null
  THEN [threw |-> "NotInitialized", source |-> Null, masks |-> Null]
  ELSE
    LET imgData    == getImageData(canvas, eyeWidth, eyeHeight)
        pal        == buildPalette(color1, color2, color3, color4, color5)
        colorNames == Arr(<<"white", color1, color2, color3, color4, color5>>)
    IN  [ threw  |-> "none",
          source |-> imgData,
          masks  |-> [n \in 0..(ArrLen(pal) - 2) |->
                        LET layerIndex == n + 1
                        IN  [ layerIndex |-> layerIndex,
                              download   |-> <<"risograph-layer", layerIndex,
                                               colorNames[layerIndex], "png">>,
                              width      |-> imgData.width,
                              height     |-> imgData.height,
                              data       |-> layerData(imgData.data,
                                                       pal[layerIndex]) ]] ]

\* a frame of the video as pollVideo reads it from the scratch canvas: the
\* video covers the canvas, so every pixel is opaque
VideoFrame(img) ==
  [img EXCEPT !.data = [i \in DOMAIN img.data |->
                          IF i % 4 = 3 THEN 255 ELSE img.data[i]]]

BlankCanvas(width, height) ==
  [ width  |-> width,
    height |-> height,
    data   |-> [i \in 0..(width * height * 4 - 1) |-> 0] ]

ExportMethods == {"threshold", "floyd-steinberg"}

\* what the final canvas may hold: nothing drawn yet, or a dithered frame
\* that pollVideo has put on it
CanvasImages ==
  { BlankCanvas(w, h) : w \in 1..MaxW, h \in 1..MaxH }
  \cup
  { applyDithering(VideoFrame(img), pal, method).value :
      img \in SourceImages, pal \in Palettes, method \in ExportMethods }

InitExport ==
  /\ finalCanvas \in CanvasImages \cup {Null}
  /\ layers = Null
  /\ ditherMethod = "floyd-steinberg"
  /\ palette = Null
  /\ imageData = Null
  /\ before = Null
  /\ outcome = "idle"
  /\ paletteWasSet = FALSE
  /\ returned = Null
  /\ queryRgb = Null
  /\ queryResult = Null
  /\ colors = Null
  /\ earlier = Null
  /\ scan = Null
  /\ NoEye

\* onExportLayers passes the five colours and the size of the canvases
ExportRisographLayers(ink) ==
  /\ layers' = [ colors |-> ink,
                 result |-> IF finalCanvas = Null
                            THEN exportRisographLayers(finalCanvas,
                                   ink[1], ink[2], ink[3], ink[4], ink[5], 0, 0)
                            ELSE exportRisographLayers(finalCanvas,
                                   ink[1], ink[2], ink[3], ink[4], ink[5],
                                   finalCanvas.width, finalCanvas.height) ]
  /\ UNCHANGED <<ditherMethod, palette, imageData, before, outcome,
                 paletteWasSet, returned, finalCanvas, queryRgb, queryResult, colors>>
  /\ UNCHANGED <<scan, eyeVars>>

NextExport ==
  /\ \E ink \in InkChoices : ExportRisographLayers(ink)
  /\ UNCHANGED earlier

SpecExport == InitExport /\ [][NextExport]_vars

----------------------------------------------------------------------------
(* The EYE element with its CameraManager, the browser's interval timers   *)
(* and camera streams.                                                     *)
(* Every action is one task of the event loop. pollVideo awaits the value  *)
(* of drawImage, which is no promise: the rest of pollVideo runs in the    *)
(* microtask checkpoint of the same timer task, before any other task.     *)

\* the sizes of the canvases (eye_width, eye_height) an element is given
EyeSizes == { <<2, 1>> }

\* dither-method names the selector of the menu offers, and names a page
\* may write into the dither-method attribute
SelectableMethods == { "floyd-steinberg", "threshold" }
AttributeMethods == { "jarvis", "constructor" }

DefaultColors == <<"black", "orange", "blue", "pink", "red">>

\* what the video shows when a frame is drawn: the frame covers the canvas
EyeFrames(size) ==
  { VideoFrame(SourceImage(size[1], size[2], a, 1)) : a \in {0, 3} }

InitEye ==
  /\ lifecycle = "created"
  /\ dither_method = "floyd-steinberg"
  /\ colors = DefaultColors
  /\ eyeSize \in EyeSizes
  /\ imageProcessor = TheImageProcessor
  /\ ditherMethod = "floyd-steinberg"
  /\ palette = Null
  /\ paletteWasSet = FALSE
  /\ video_polling = FALSE
  /\ video_poll = NoTimer
  /\ scratchCanvas = Null
  /\ finalCanvas = Null
  /\ video = Null
  /\ stream = NoStream
  /\ intervals = {}
  /\ intervalCount = 0
  /\ streams = << >>
  /\ requests = NoRequests
  /\ lastPoll = Null
  /\ upload = "none"
  /\ attribute = ""
  /\ inflight = << >>
  /\ imageData = Null
  /\ before = Null
  /\ outcome = "idle"
  /\ returned = Null
  /\ layers = Null
  /\ queryRgb = Null
  /\ queryResult = Null
  /\ earlier = Null
  /\ scan = Null

\* what no action of the element changes
notEyeVars == <<imageData, before, outcome, returned, layers, queryRgb,
                queryResult, earlier, scan>>

\* CameraManager.stopStream: the tracks of this.stream are stopped
stopStream_streams ==
  IF stream # NoStream THEN [streams EXCEPT ![stream] = "stopped"] ELSE streams

\* CameraManager.stopStream: the video element loses its srcObject
stopStream_video ==
  IF video # Null /\ video.srcObject # NoStream
  THEN [srcObject |-> NoStream, metadata |-> "none"]
  ELSE video

\* EYE.beginVideoPoll
beginVideoPoll ==
  /\ intervalCount < MaxIntervals
  /\ video_polling' = TRUE
  /\ intervalCount' = intervalCount + 1
  /\ video_poll' = intervalCount + 1
  /\ intervals' = intervals \cup {intervalCount + 1}

\* EYE.pauseVideoPoll: clearInterval of an id that is not scheduled, or of
\* null, does nothing
pauseVideoPoll ==
  /\ video_polling' = FALSE
  /\ intervals' = intervals \ {video_poll}
  /\ UNCHANGED <<video_poll, intervalCount>>

\* connectedCallback reads the attributes into the fields and renders the
\* Connect button; it runs again when the element is put back into a
\* document. Each colour field holds its attribute, or the default when
\* there is none (onColorChange and attributeChangedCallback see to that),
\* so reading the colour attributes changes no colour.
ConnectedCallback(size) ==
  /\ lifecycle \in {"created", "disconnected"}
  /\ lifecycle' = "connected"
  /\ dither_method' = (IF attribute = "" THEN "floyd-steinberg" ELSE attribute)
  /\ eyeSize' = size
  /\ UNCHANGED <<ditherMethod, palette, paletteWasSet, finalCanvas, colors,
                 notEyeVars>>
  /\ UNCHANGED attribute
  /\ UNCHANGED <<imageProcessor, video_polling, video_poll, scratchCanvas,
                 video, stream, intervals, intervalCount, streams, requests,
                 lastPoll, upload>>

\* the click on Connect: openEYE, that is setupCanvases, setupManagers,
\* createUI (whose updateCameraList asks for the devices) and startCamera
\* (whose startStream asks for the camera). After disconnectedCallback the
\* field imageProcessor is null: setupManagers throws a TypeError at
\* this.imageProcessor.setDitherMethod, after the canvases and the video
\* element have been created, and openEYE ends there.
OpenEYE ==
  /\ lifecycle = "connected"
  /\ scratchCanvas' = BlankCanvas(eyeSize[1], eyeSize[2])
  /\ finalCanvas' = BlankCanvas(eyeSize[1], eyeSize[2])
  /\ video' = [srcObject |-> NoStream, metadata |-> "none"]
  /\ IF imageProcessor = Null
     THEN /\ lifecycle' = "failed"
          /\ UNCHANGED <<ditherMethod, palette, paletteWasSet, streams,
                         stream, requests>>
     ELSE /\ lifecycle' = "open"
          /\ ditherMethod' = dither_method
          /\ palette' = buildPalette(colors[1], colors[2], colors[3],
                                     colors[4], colors[5])
          /\ paletteWasSet' = TRUE
          /\ streams' = stopStream_streams
          /\ stream' = NoStream
          /\ requests' = [requests EXCEPT !.enumerate = @ + 1,
                                          !.primary = @ + 1]
  /\ UNCHANGED <<colors, notEyeVars>>
  /\ UNCHANGED attribute
  /\ UNCHANGED <<dither_method, eyeSize, imageProcessor, video_polling,
                 video_poll, intervals, intervalCount, lastPoll, upload>>

\* getUserMedia of getAvailableDevices settles: a granted stream is stopped
\* at once; a refusal gives the fallback list
DevicesSettle(granted) ==
  /\ requests.enumerate > 0
  /\ requests' = [requests EXCEPT !.enumerate = @ - 1]
  /\ IF granted
     THEN /\ Len(streams) < MaxStreams
          /\ streams' = Append(streams, "stopped")
     ELSE UNCHANGED streams
  /\ UNCHANGED <<ditherMethod, palette, paletteWasSet, finalCanvas, colors,
                 notEyeVars>>
  /\ UNCHANGED attribute
  /\ UNCHANGED <<lifecycle, dither_method, eyeSize, imageProcessor,
                 video_polling, video_poll, scratchCanvas, video, stream,
                 intervals, intervalCount, lastPoll, upload>>

\* startStream after its first await. Granted: this.stream is the new
\* stream, and this.video.srcObject = this.stream throws a TypeError when
\* destroy has set this.video to null; the catch then asks for the fallback
\* stream, as it does when the request is refused.
StreamSettle(granted) ==
  /\ requests.primary > 0
  /\ IF granted
     THEN /\ Len(streams) < MaxStreams
          /\ streams' = Append(streams, "live")
          /\ stream' = Len(streams) + 1
          /\ IF video = Null
             THEN /\ requests' = [requests EXCEPT !.primary = @ - 1,
                                                  !.fallback = @ + 1]
                  /\ UNCHANGED video
             ELSE /\ requests' = [requests EXCEPT !.primary = @ - 1]
                  /\ video' = [srcObject |-> Len(streams) + 1,
                               metadata |-> "pending"]
     ELSE /\ requests' = [requests EXCEPT !.primary = @ - 1, !.fallback = @ + 1]
          /\ UNCHANGED <<streams, stream, video>>
  /\ UNCHANGED <<ditherMethod, palette, paletteWasSet, finalCanvas, colors,
                 notEyeVars>>
  /\ UNCHANGED attribute
  /\ UNCHANGED <<lifecycle, dither_method, eyeSize, imageProcessor,
                 video_polling, video_poll, scratchCanvas, intervals,
                 intervalCount, lastPoll, upload>>

\* startStream after the await of its catch block: the same assignments; a
\* TypeError or a refusal is thrown to the caller
FallbackSettle(granted) ==
  /\ requests.fallback > 0
  /\ requests' = [requests EXCEPT !.fallback = @ - 1]
  /\ IF granted
     THEN /\ Len(streams) < MaxStreams
          /\ streams' = Append(streams, "live")
          /\ stream' = Len(streams) + 1
          /\ IF video = Null
             THEN UNCHANGED video
             ELSE video' = [srcObject |-> Len(streams) + 1,
                            metadata |-> "pending"]
     ELSE UNCHANGED <<streams, stream, video>>
  /\ UNCHANGED <<ditherMethod, palette, paletteWasSet, finalCanvas, colors,
                 notEyeVars>>
  /\ UNCHANGED attribute
  /\ UNCHANGED <<lifecycle, dither_method, eyeSize, imageProcessor,
                 video_polling, video_poll, scratchCanvas, intervals,
                 intervalCount, lastPoll, upload>>

\* video.onloadedmetadata: the stream is ready, onStreamReady begins to poll
LoadedMetadata ==
  /\ video # Null
  /\ video.metadata = "pending"
  /\ video' = [video EXCEPT !.metadata = "loaded"]
  /\ beginVideoPoll
  /\ UNCHANGED <<ditherMethod, palette, paletteWasSet, finalCanvas, colors,
                 notEyeVars>>
  /\ UNCHANGED attribute
  /\ UNCHANGED <<lifecycle, dither_method, eyeSize, imageProcessor,
                 scratchCanvas, stream, streams, requests, lastPoll, upload>>

\* onDeviceChange: setSelectedDevice, then startStream up to its await
OnDeviceChange ==
  /\ lifecycle = "open"
  /\ requests.primary + requests.fallback + Len(streams) < MaxStreams
  /\ streams' = stopStream_streams
  /\ stream' = NoStream
  /\ video' = stopStream_video
  /\ requests' = [requests EXCEPT !.primary = @ + 1]
  /\ UNCHANGED <<ditherMethod, palette, paletteWasSet, finalCanvas, colors,
                 notEyeVars>>
  /\ UNCHANGED attribute
  /\ UNCHANGED <<lifecycle, dither_method, eyeSize, imageProcessor,
                 video_polling, video_poll, scratchCanvas, intervals,
                 intervalCount, lastPoll, upload>>

\* the click listener of the scratch canvas: pause or resume
ScratchCanvasClick ==
  /\ lifecycle = "open"
  /\ IF video_polling THEN pauseVideoPoll ELSE beginVideoPoll
  /\ UNCHANGED <<ditherMethod, palette, paletteWasSet, finalCanvas, colors,
                 notEyeVars>>
  /\ UNCHANGED attribute
  /\ UNCHANGED <<lifecycle, dither_method, eyeSize, imageProcessor,
                 scratchCanvas, video, stream, streams, requests, lastPoll,
                 upload>>

\* mutant: the selector of the menu changes the field only
OnDitherMethodChange_fieldOnly(method) ==
  /\ lifecycle = "open"
  /\ dither_method' = method
  /\ UNCHANGED <<ditherMethod, palette, paletteWasSet, finalCanvas, colors,
                 notEyeVars>>
  /\ UNCHANGED attribute
  /\ UNCHANGED <<lifecycle, eyeSize, imageProcessor, video_polling,
                 video_poll, scratchCanvas, video, stream, intervals,
                 intervalCount, streams, requests, lastPoll, upload>>

\* onDitherMethodChange: the selector of the menu
OnDitherMethodChange(method) ==
  /\ lifecycle = "open"
  /\ dither_method' = method
  /\ ditherMethod' = method
  /\ UNCHANGED <<palette, paletteWasSet, finalCanvas, colors, notEyeVars>>
  /\ UNCHANGED attribute
  /\ UNCHANGED <<lifecycle, eyeSize, imageProcessor, video_polling,
                 video_poll, scratchCanvas, video, stream, intervals,
                 intervalCount, streams, requests, lastPoll, upload>>

\* attributeChangedCallback("dither-method", old_value, new_value): the
\* attribute is written in the markup (the callback then runs before
\* connectedCallback) or set or removed by a script at any time
AttributeChangedDitherMethod(new_value) ==
  /\ attribute # new_value
  /\ attribute' = new_value
  /\ dither_method' = (IF new_value = "" THEN "floyd-steinberg" ELSE new_value)
  /\ IF imageProcessor # Null
     THEN ditherMethod' = dither_method'
     ELSE UNCHANGED ditherMethod
  /\ UNCHANGED <<palette, paletteWasSet, finalCanvas, colors, notEyeVars>>
  /\ UNCHANGED <<lifecycle, eyeSize, imageProcessor, video_polling,
                 video_poll, scratchCanvas, video, stream, intervals,
                 intervalCount, streams, requests, lastPoll, upload>>

\* the change listener of the file input calls callbacks.onImageUpload if
\* there is one; getUICallbacks defines none
OnImageUpload ==
  /\ lifecycle = "open"
  /\ upload # "uploaded"
  /\ upload' = "uploaded"
  /\ UNCHANGED <<ditherMethod, palette, paletteWasSet, finalCanvas, colors,
                 notEyeVars>>
  /\ UNCHANGED attribute
  /\ UNCHANGED <<lifecycle, dither_method, eyeSize, imageProcessor,
                 video_polling, video_poll, scratchCanvas, video, stream,
                 intervals, intervalCount, streams, requests, lastPoll>>

\* the click listener of the close button calls callbacks.onCloseUpload if
\* there is one; getUICallbacks defines none
OnCloseUpload ==
  /\ lifecycle = "open"
  /\ upload = "uploaded"
  /\ upload' = "closed"
  /\ UNCHANGED <<ditherMethod, palette, paletteWasSet, finalCanvas, colors,
                 notEyeVars>>
  /\ UNCHANGED attribute
  /\ UNCHANGED <<lifecycle, dither_method, eyeSize, imageProcessor,
                 video_polling, video_poll, scratchCanvas, video, stream,
                 intervals, intervalCount, streams, requests, lastPoll>>

\* what a tick of pollVideo did: ready says that it found a video with
\* dimensions, events counts the IMAGE DRAWN events it dispatched, detail is
\* the detail of the event and shown the final canvas when it was dispatched
PollResult(ready, events, detail, shown, untouched) ==
  [ ready |-> ready, events |-> events, detail |-> detail, shown |-> shown,
    untouched |-> untouched ]

\* this.imageProcessor.applyDithering(img_data) in pollVideo
pollVideo_dithered(img_data) ==
  IF imageProcessor = Null
  THEN [threw |-> "TypeError", value |-> img_data]
  ELSE applyDithering(img_data, palette, ditherMethod)

\* a tick of the interval timer id: pollVideo
PollVideo(id) ==
  /\ id \in intervals
  /\ IF video = Null \/ video.metadata # "loaded"
     THEN /\ lastPoll' = PollResult(FALSE, 0, Null, Null, TRUE)
          /\ UNCHANGED <<scratchCanvas, finalCanvas>>
     ELSE \E frame \in EyeFrames(eyeSize) :
            \E r \in { pollVideo_dithered(
                         getImageData(frame, eyeSize[1], eyeSize[2])) } :
              /\ scratchCanvas' = frame
              /\ IF r.threw = "none"
                 THEN /\ finalCanvas' = r.value
                      /\ lastPoll' = PollResult(TRUE, 1, r.value, finalCanvas', FALSE)
                 ELSE /\ UNCHANGED finalCanvas
                      /\ lastPoll' = PollResult(TRUE, 0, Null, Null, FALSE)
  /\ UNCHANGED <<ditherMethod, palette, paletteWasSet, colors, notEyeVars>>
  /\ UNCHANGED attribute
  /\ UNCHANGED <<lifecycle, dither_method, eyeSize, imageProcessor,
                 video_polling, video_poll, video, stream, intervals,
                 intervalCount, streams, requests, upload>>

\* disconnectedCallback: pauseVideoPoll, cameraManager.destroy (stopStream,
\* video = null), imageProcessor = null, and the managers of the menu and of
\* the export are destroyed
DisconnectedCallback ==
  /\ lifecycle \in {"connected", "open", "failed"}
  /\ lifecycle' = "disconnected"
  /\ pauseVideoPoll
  /\ streams' = stopStream_streams
  /\ stream' = NoStream
  /\ video' = Null
  /\ imageProcessor' = Null
  /\ UNCHANGED <<ditherMethod, palette, paletteWasSet, finalCanvas, colors,
                 notEyeVars>>
  /\ UNCHANGED attribute
  /\ UNCHANGED <<dither_method, eyeSize, scratchCanvas, requests, lastPoll,
                 upload>>

NextEye ==
  \/ /\ \E size \in EyeSizes : ConnectedCallback(size)
     /\ UNCHANGED inflight
  \/ /\ OpenEYE
     /\ UNCHANGED inflight
  \/ /\ \E granted \in BOOLEAN : DevicesSettle(granted)
     /\ UNCHANGED inflight
  \/ /\ \E granted \in BOOLEAN : StreamSettle(granted)
     /\ UNCHANGED inflight
  \/ /\ \E granted \in BOOLEAN : FallbackSettle(granted)
     /\ UNCHANGED inflight
  \/ /\ LoadedMetadata
     /\ UNCHANGED inflight
  \/ /\ OnDeviceChange
     /\ UNCHANGED inflight
  \/ /\ ScratchCanvasClick
     /\ UNCHANGED inflight
  \/ /\ \E method \in SelectableMethods : OnDitherMethodChange(method)
     /\ UNCHANGED inflight
  \/ /\ \E new_value \in AttributeMethods : AttributeChangedDitherMethod(new_value)
     /\ UNCHANGED inflight
  \/ /\ OnImageUpload
     /\ UNCHANGED inflight
  \/ /\ OnCloseUpload
     /\ UNCHANGED inflight
  \/ /\ \E id \in 1..MaxIntervals : PollVideo(id)
     /\ UNCHANGED inflight
  \/ /\ DisconnectedCallback
     /\ UNCHANGED inflight

SpecEye == InitEye /\ [][NextEye]_vars

----------------------------------------------------------------------------
(* The element with its settings, its export, and pollVideo with its await *)
(* made explicit: a tick runs pollVideo up to "await drawImage(...)", the  *)
(* rest of pollVideo is a microtask.                                       *)

\* colours the colour input of the menu delivers for color1 ("hffff01"
\* stands for "#ffff01"), and values a script may give the color-1
\* attribute ("": the attribute is removed)
ColorInputs == { "hffff01" }
ColorAttributes == { "" }

\* values of the dither-method attribute ("": the attribute is removed)
MethodAttributes == { "", "constructor" }

\* stroke styles a caller of drawLine passes (the default is "red")
StrokeStyles == { "red" }

\* mutant: a task may start while a continuation of pollVideo is waiting
TaskMayRun_always == TRUE

\* the event loop runs all microtasks when a task has ended, so a task (a
\* timer tick, an event listener, a lifecycle callback) starts only when no
\* continuation of pollVideo is waiting
TaskMayRun == inflight = << >>

\* what the processor-side history variables are
callHistory == <<imageData, before, outcome, returned, queryRgb, queryResult,
                 earlier, scan>>

\* onColorChange(propertyName, newColor) for propertyName = "color" + n: the
\* field, setPalette, and setAttribute, whose attributeChangedCallback
\* assigns the same colour and calls setPalette once more
OnColorChange(n, newColor) ==
  /\ lifecycle = "open"
  /\ colors' = [colors EXCEPT ![n] = newColor]
  /\ palette' = buildPalette(colors'[1], colors'[2], colors'[3], colors'[4],
                             colors'[5])
  /\ paletteWasSet' = TRUE
  /\ UNCHANGED <<ditherMethod, finalCanvas, layers, callHistory, attribute>>
  /\ UNCHANGED <<lifecycle, dither_method, eyeSize, imageProcessor,
                 video_polling, video_poll, scratchCanvas, video, stream,
                 intervals, intervalCount, streams, requests, lastPoll,
                 upload>>

\* attributeChangedCallback("color-" + n, old_value, new_value)
AttributeChangedColor(n, new_value) ==
  /\ colors' = [colors EXCEPT ![n] = IF new_value = "" THEN DefaultColors[n]
                                     ELSE new_value]
  /\ IF imageProcessor # Null
     THEN /\ palette' = buildPalette(colors'[1], colors'[2], colors'[3],
                                     colors'[4], colors'[5])
          /\ paletteWasSet' = TRUE
     ELSE UNCHANGED <<palette, paletteWasSet>>
  /\ UNCHANGED <<ditherMethod, finalCanvas, layers, callHistory, attribute>>
  /\ UNCHANGED <<lifecycle, dither_method, eyeSize, imageProcessor,
                 video_polling, video_poll, scratchCanvas, video, stream,
                 intervals, intervalCount, streams, requests, lastPoll,
                 upload>>

\* onExportLayers: the export of the final canvas with the five colour
\* fields and the size of the canvases
OnExportLayers ==
  /\ lifecycle = "open"
  /\ layers' = [ colors |-> colors,
                 result |-> exportRisographLayers(finalCanvas,
                              colors[1], colors[2], colors[3], colors[4],
                              colors[5], eyeSize[1], eyeSize[2]) ]
  /\ UNCHANGED <<ditherMethod, palette, paletteWasSet, finalCanvas, colors,
                 callHistory, attribute>>
  /\ UNCHANGED <<lifecycle, dither_method, eyeSize, imageProcessor,
                 video_polling, video_poll, scratchCanvas, video, stream,
                 intervals, intervalCount, streams, requests, lastPoll,
                 upload>>

\* EYE.drawLine with a line that covers the first pixel of the final canvas
DrawLine(strokeStyle) ==
  /\ lifecycle = "open"
  /\ finalCanvas' = [finalCanvas EXCEPT !.data =
                       [i \in DOMAIN finalCanvas.data |->
                          IF i < 3 THEN colorToRgb(strokeStyle)[i]
                          ELSE IF i = 3 THEN 255
                          ELSE finalCanvas.data[i]]]
  /\ UNCHANGED <<ditherMethod, palette, paletteWasSet, layers, colors,
                 callHistory, attribute>>
  /\ UNCHANGED <<lifecycle, dither_method, eyeSize, imageProcessor,
                 video_polling, video_poll, scratchCanvas, video, stream,
                 intervals, intervalCount, streams, requests, lastPoll,
                 upload>>

\* a tick of the interval timer id: pollVideo up to its await. Without a
\* video that has dimensions it returns; otherwise it clears the scratch
\* canvas, draws the frame and is suspended.
PollVideoBegin(id) ==
  /\ id \in intervals
  /\ IF video = Null \/ video.metadata # "loaded"
     THEN /\ lastPoll' = PollResult(FALSE, 0, Null, Null, TRUE)
          /\ UNCHANGED <<scratchCanvas, inflight>>
     ELSE \E frame \in EyeFrames(eyeSize) :
            /\ scratchCanvas' = frame
            /\ inflight' = Append(inflight, [timer |-> id, drew |-> frame])
            /\ UNCHANGED lastPoll
  /\ UNCHANGED <<ditherMethod, palette, paletteWasSet, finalCanvas, layers,
                 colors, callHistory, attribute>>
  /\ UNCHANGED <<lifecycle, dither_method, eyeSize, imageProcessor,
                 video_polling, video_poll, video, stream, intervals,
                 intervalCount, streams, requests, upload>>

\* pollVideo after its await: getImageData of the scratch canvas,
\* applyDithering, putImageData on the final canvas, the event
PollVideoResume ==
  /\ inflight # << >>
  /\ inflight' = Tail(inflight)
  /\ \E r \in { pollVideo_dithered(
                  getImageData(scratchCanvas, eyeSize[1], eyeSize[2])) } :
       IF r.threw = "none"
       THEN /\ finalCanvas' = r.value
            /\ lastPoll' = PollResult(TRUE, 1, r.value, finalCanvas', FALSE)
       ELSE /\ UNCHANGED finalCanvas
            /\ lastPoll' = PollResult(TRUE, 0, Null, Null, FALSE)
  /\ UNCHANGED <<ditherMethod, palette, paletteWasSet, layers, colors,
                 callHistory, attribute>>
  /\ UNCHANGED <<lifecycle, dither_method, eyeSize, imageProcessor,
                 video_polling, video_poll, scratchCanvas, video, stream,
                 intervals, intervalCount, streams, requests, upload>>

NextPoll ==
  \/ /\ TaskMayRun
     /\ \E size \in EyeSizes : ConnectedCallback(size)
     /\ UNCHANGED inflight
  \/ /\ TaskMayRun
     /\ OpenEYE
     /\ UNCHANGED inflight
  \/ /\ TaskMayRun
     /\ StreamSettle(TRUE)
     /\ UNCHANGED inflight
  \/ /\ TaskMayRun
     /\ LoadedMetadata
     /\ UNCHANGED inflight
  \/ /\ TaskMayRun
     /\ ScratchCanvasClick
     /\ UNCHANGED inflight
  \/ /\ TaskMayRun
     /\ \E method \in SelectableMethods : OnDitherMethodChange(method)
     /\ UNCHANGED inflight
  \/ /\ TaskMayRun
     /\ \E new_value \in MethodAttributes : AttributeChangedDitherMethod(new_value)
     /\ UNCHANGED inflight
  \/ /\ TaskMayRun
     /\ \E newColor \in ColorInputs : OnColorChange(1, newColor)
     /\ UNCHANGED inflight
  \/ /\ TaskMayRun
     /\ \E new_value \in ColorAttributes : AttributeChangedColor(1, new_value)
     /\ UNCHANGED inflight
  \/ /\ TaskMayRun
     /\ OnExportLayers
     /\ UNCHANGED inflight
  \/ /\ TaskMayRun
     /\ \E strokeStyle \in StrokeStyles : DrawLine(strokeStyle)
     /\ UNCHANGED inflight
  \/ /\ TaskMayRun
     /\ \E id \in 1..MaxIntervals : PollVideoBegin(id)
  \/ PollVideoResume
  \/ /\ TaskMayRun
     /\ DisconnectedCallback
     /\ UNCHANGED inflight

SpecPoll == InitEye /\ [][NextPoll]_vars

----------------------------------------------------------------------------
(* applyErrorDiffusionDithering step by step: one action matches a pixel, *)
(* one action is one call of the callback of matrix.forEach.               *)

\* the pixel the callback writes to for the pixel (x, y) and a kernel entry,
\* as its index y2 * width + x2, or -1 when the bounds test fails
tapTarget(width, height, x, y, tap) ==
  LET x2 == x + tap.x
      y2 == y + tap.y
  IN  IF x2 >= 0 /\ x2 < width /\ y2 >= 0 /\ y2 < height
      THEN y2 * width + x2
      ELSE -1

\* the position of the loops: pixel k = y * width + x is the current one;
\* i is the kernel entry forEach calls next, or -1 when the pixel is still
\* to be matched; errorR, errorG, errorB are the constants of the pixel.
\* target, clamped and again describe the last call of the callback: the
\* pixel it wrote to, whether the clamp cut a sum, and whether the pixel had
\* had a sum cut before; cut is the set of pixels a cut sum was stored to.
ScanAt(k, i, errorR, errorG, errorB, target, clamped, again, cut) ==
  [ k |-> k, i |-> i, errorR |-> errorR, errorG |-> errorG,
    errorB |-> errorB, target |-> target, clamped |-> clamped,
    again |-> again, cut |-> cut ]

\* true when value + error * num/den lies outside 0..255
isCut(value, error, num, den) ==
  \/ value * den + error * num < 0
  \/ value * den + error * num > 255 * den

InitDiffusion ==
  /\ imageData \in SourceImages
  /\ before = imageData
  /\ palette \in { buildPalette(ink[1], ink[2], ink[3], ink[4], ink[5]) :
                     ink \in ProbeInks }
  /\ paletteWasSet = TRUE
  /\ ditherMethod \in DOMAIN getDiffusionMatrices
  /\ scan = ScanAt(0, -1, 0, 0, 0, -1, FALSE, FALSE, {})
  /\ outcome = "idle"
  /\ returned = Null
  /\ finalCanvas = Null
  /\ layers = Null
  /\ queryRgb = Null
  /\ queryResult = Null
  /\ colors = Null
  /\ earlier = Null
  /\ NoEye

\* lines 122-135: the pixel is replaced by its palette colour, the error is
\* computed
MatchPixel ==
  /\ outcome = "idle"
  /\ scan.i = -1
  /\ scan.k < imageData.width * imageData.height
  /\ LET data     == imageData.data
         idx      == scan.k * 4
         oldPixel == Arr(<<data[idx], data[idx + 1], data[idx + 2]>>)
     IN  \E newPixel \in { findClosestColor(oldPixel, palette) } :
           /\ imageData' = [imageData EXCEPT !.data =
                              [data EXCEPT ![idx]     = newPixel[0],
                                           ![idx + 1] = newPixel[1],
                                           ![idx + 2] = newPixel[2]]]
           /\ scan' = ScanAt(scan.k, 0, oldPixel[0] - newPixel[0],
                             oldPixel[1] - newPixel[1],
                             oldPixel[2] - newPixel[2], -1, FALSE, FALSE,
                             scan.cut)
  /\ UNCHANGED <<ditherMethod, palette, before, outcome, paletteWasSet,
                 returned, finalCanvas, layers, queryRgb, queryResult, colors,
                 earlier, eyeVars>>

\* lines 138-150: one call of the callback of matrix.forEach; after the
\* last entry the loops go on to the next pixel
DistributeTap ==
  /\ outcome = "idle"
  /\ scan.i >= 0
  /\ LET data   == imageData.data
         width  == imageData.width
         height == imageData.height
         x      == scan.k % width
         y      == scan.k \div width
         taps   == selectMatrix(ditherMethod).taps
         tap    == taps[scan.i]
         target == tapTarget(width, height, x, y, tap)
         cutNow == /\ target # -1
                   /\ \/ isCut(data[target * 4], scan.errorR, tap.num, tap.den)
                      \/ isCut(data[target * 4 + 1], scan.errorG, tap.num, tap.den)
                      \/ isCut(data[target * 4 + 2], scan.errorB, tap.num, tap.den)
         last   == scan.i + 1 >= ArrLen(taps)
     IN  /\ imageData' = [imageData EXCEPT !.data =
                            applyTap(data, width, height, x, y, tap,
                                     scan.errorR, scan.errorG, scan.errorB)]
         /\ scan' = ScanAt(IF last THEN scan.k + 1 ELSE scan.k,
                           IF last THEN -1 ELSE scan.i + 1,
                           IF last THEN 0 ELSE scan.errorR,
                           IF last THEN 0 ELSE scan.errorG,
                           IF last THEN 0 ELSE scan.errorB,
                           target, cutNow,
                           target \in scan.cut /\ imageData' # imageData,
                           IF cutNow THEN scan.cut \cup {target} ELSE scan.cut)
  /\ UNCHANGED <<ditherMethod, palette, before, outcome, paletteWasSet,
                 returned, finalCanvas, layers, queryRgb, queryResult, colors,
                 earlier, eyeVars>>

\* line 154: return imageData
ReturnImageData ==
  /\ outcome = "idle"
  /\ scan.i = -1
  /\ scan.k >= imageData.width * imageData.height
  /\ outcome' = "returned"
  /\ returned' = imageData
  /\ UNCHANGED <<ditherMethod, palette, imageData, before, paletteWasSet,
                 finalCanvas, layers, queryRgb, queryResult, colors, earlier,
                 scan, eyeVars>>

NextDiffusion ==
  \/ MatchPixel
  \/ DistributeTap
  \/ ReturnImageData

SpecDiffusion == InitDiffusion /\ [][NextDiffusion]_vars

----------------------------------------------------------------------------
(* Properties *)

\* the RGB triple of pixel k of a data array
PixelRgb(data, k) == Arr(<<data[k * 4], data[k * 4 + 1], data[k * 4 + 2]>>)

PixelCount(img) == img.width * img.height

PaletteColors(pal) == { pal[i] : i \in DOMAIN pal }

RecognizedMethods ==
  { "floyd-steinberg", "atkinson", "burkes", "sierra", "stucki", "jarvis",
    "threshold" }

\* C1: applyDithering signals the palette error exactly when setPalette has
\* not been called before it, whatever the method, and then leaves every
\* sample of the buffer as it was.
C1_PaletteErrorIffNoSetPalette ==
  outcome # "idle" =>
    /\ (outcome = "PaletteNotSet") <=> ~paletteWasSet
    /\ outcome = "PaletteNotSet" => imageData = before

C1_Witness ==
  /\ outcome = "PaletteNotSet"
  /\ ditherMethod = "jarvis"
  /\ imageData = before
  /\ PixelCount(imageData) = 6

\* C2: when applyDithering returns, every pixel of the buffer has the RGB of
\* one of the six palette entries.
C2_OutputUsesOnlyPalette ==
  outcome = "returned" =>
    \A k \in 0..(PixelCount(imageData) - 1) :
      PixelRgb(imageData.data, k) \in PaletteColors(palette)

C2_Witness ==
  /\ outcome = "returned"
  /\ ditherMethod = "stucki"
  /\ imageData.width = 3 /\ imageData.height = 3
  /\ imageData # before
  /\ \A k \in 0..8 : PixelRgb(imageData.data, k) \in PaletteColors(palette)

\* C3: no palette entry is strictly closer to rgb than the entry that
\* findClosestColor returns, which is an entry of the palette.
C3_ClosestIsNearest ==
  queryResult # Null =>
    /\ queryResult.index \in DOMAIN palette
    /\ queryResult.color = palette[queryResult.index]
    /\ \A j \in DOMAIN palette :
         colorDistance(queryRgb, queryResult.color) <= colorDistance(queryRgb, palette[j])

C3_Witness ==
  /\ queryResult # Null
  /\ queryResult.index = 3
  /\ colorDistance(queryRgb, queryResult.color) > 0

\* C4: of the palette entries at minimum distance from rgb, findClosestColor
\* returns the one with the lowest index; index 0 wins every tie it is in.
C4_LowestIndexWinsTies ==
  queryResult # Null =>
    \A i \in DOMAIN palette :
      (\A j \in DOMAIN palette :
          colorDistance(queryRgb, palette[i]) <= colorDistance(queryRgb, palette[j]))
      => queryResult.index <= i

\* a tie between white at index 0 and a different colour at index 4
C4_Witness ==
  /\ queryResult # Null
  /\ queryResult.index = 0
  /\ palette[0] # palette[4]
  /\ colorDistance(queryRgb, palette[0]) = colorDistance(queryRgb, palette[4])

\* C5: with a method name that is none of the seven recognized ones,
\* applyDithering raises no error and leaves the buffer as the method
\* floyd-steinberg would on the same input and palette.
C5_UnknownMethodFallsBack ==
  (outcome # "idle" /\ paletteWasSet /\ ditherMethod \notin RecognizedMethods) =>
    /\ outcome = "returned"
    /\ imageData =
         applyErrorDiffusionDithering(before, palette, "floyd-steinberg").value

\* C6: with method threshold the RGB of every output pixel is
\* findClosestColor of the RGB the same pixel had before the call; the 2x1
\* buffer (10,10,10,255), (250,250,250,255) with white and black in the
\* palette becomes (0,0,0,255), (255,255,255,255).
C6_ThresholdIsPerPixel ==
  (outcome = "returned" /\ ditherMethod = "threshold") =>
    /\ \A k \in 0..(PixelCount(imageData) - 1) :
         PixelRgb(imageData.data, k) =
           findClosestColor(PixelRgb(before.data, k), palette)
    /\ ( /\ before = SourceImage(2, 1, 0, 1)
         /\ Arr(<<0, 0, 0>>) \in PaletteColors(palette) )
       => imageData.data = Arr(<<0, 0, 0, 255, 255, 255, 255, 255>>)

C6_Witness ==
  /\ outcome = "returned"
  /\ ditherMethod = "threshold"
  /\ before = SourceImage(2, 1, 0, 1)
  /\ before.data = Arr(<<10, 10, 10, 255, 250, 250, 250, 255>>)
  /\ imageData.data = Arr(<<0, 0, 0, 255, 255, 255, 255, 255>>)

\* C7: a threshold quantization of a buffer that the previous call has
\* quantized with the same palette changes nothing.
C7_ThresholdIdempotent ==
  [][ ( /\ imageData # Null /\ imageData' # Null
        /\ ditherMethod = "threshold"
        /\ outcome = "returned" /\ outcome' = "returned" )
      => imageData' = imageData ]_vars

\* a second quantization has happened: the buffer was unchanged by the last
\* call and holds black, which no source image holds
C7_Witness ==
  /\ outcome = "returned"
  /\ ditherMethod = "threshold"
  /\ imageData = before
  /\ PixelCount(imageData) = 9
  /\ \E k \in 0..8 : PixelRgb(imageData.data, k) = Arr(<<0, 0, 0>>)
  /\ palette[5] = palette[1]

\* C8: applyDithering writes no alpha sample and keeps width, height and
\* length of the buffer, whatever the method; what it returns is the buffer
\* it was given.
C8_AlphaAndShapeKept ==
  outcome # "idle" =>
    /\ imageData.width = before.width
    /\ imageData.height = before.height
    /\ DOMAIN imageData.data = DOMAIN before.data
    /\ \A k \in 0..(PixelCount(before) - 1) :
         imageData.data[k * 4 + 3] = before.data[k * 4 + 3]
    /\ outcome = "returned" => returned = imageData

C8_Witness ==
  /\ outcome = "returned"
  /\ ditherMethod = "atkinson"
  /\ imageData # before
  /\ PixelCount(imageData) = 9
  /\ imageData.data[11] = 0
  /\ imageData.data[15] = 77

\* the layers of the last export, its source and the palette it built
Exported == layers # Null /\ layers.result.threw = "none"
ExportSource == layers.result.source
ExportPalette ==
  buildPalette(layers.colors[1], layers.colors[2], layers.colors[3],
               layers.colors[4], layers.colors[5])
MaskOf(i) == layers.result.masks[i - 1]
MaskPixel(i, k) ==
  <<MaskOf(i).data[k * 4], MaskOf(i).data[k * 4 + 1],
    MaskOf(i).data[k * 4 + 2], MaskOf(i).data[k * 4 + 3]>>
InkAt(i, k) == MaskPixel(i, k) = <<0, 0, 0, 255>>

\* C9: the mask of palette index i is opaque black at a pixel exactly when
\* the source pixel has the RGB of palette[i], and opaque white otherwise; a
\* source pixel that has no palette colour is white in all five masks.
C9_MaskBlackIffPixelIsTarget ==
  Exported =>
    \A k \in 0..(PixelCount(ExportSource) - 1) :
      /\ \A i \in 1..5 :
           IF PixelRgb(ExportSource.data, k) = ExportPalette[i]
           THEN MaskPixel(i, k) = <<0, 0, 0, 255>>
           ELSE MaskPixel(i, k) = <<255, 255, 255, 255>>
      /\ PixelRgb(ExportSource.data, k) \notin PaletteColors(ExportPalette)
         => \A i \in 1..5 : MaskPixel(i, k) = <<255, 255, 255, 255>>

\* a source with a pixel of the ink at index 4 and a pixel of no palette colour
C9_Witness ==
  /\ Exported
  /\ PixelCount(ExportSource) = 6
  /\ \E k \in 0..5 : InkAt(4, k) /\ ~InkAt(1, k)
  /\ \E k \in 0..5 :
       /\ PixelRgb(ExportSource.data, k) \notin PaletteColors(ExportPalette)
       /\ \A i \in 1..5 : ~InkAt(i, k)

Quantized ==
  \A k \in 0..(PixelCount(ExportSource) - 1) :
    PixelRgb(ExportSource.data, k) \in PaletteColors(ExportPalette)

InkColors == { ExportPalette[i] : i \in 1..5 }

\* C10 as claimed: in a quantized buffer the pixels with ink in some layer
\* are exactly the pixels that are not paper white, whatever the five inks.
C10_InkIffNotPaper ==
  (Exported /\ Quantized) =>
    \A k \in 0..(PixelCount(ExportSource) - 1) :
      (\E i \in 1..5 : InkAt(i, k))
        <=> PixelRgb(ExportSource.data, k) # ExportPalette[0]

\* C10 amended: in a quantized buffer the pixels with ink in some layer are
\* exactly the pixels that have the colour of one of the five inks; they are
\* exactly the pixels that are not paper white when no ink is white.
C10_InkIffInkColor ==
  (Exported /\ Quantized) =>
    \A k \in 0..(PixelCount(ExportSource) - 1) :
      /\ (\E i \in 1..5 : InkAt(i, k))
           <=> PixelRgb(ExportSource.data, k) \in InkColors
      /\ ExportPalette[0] \notin InkColors =>
           ( (\E i \in 1..5 : InkAt(i, k))
               <=> PixelRgb(ExportSource.data, k) # ExportPalette[0] )

\* a quantized source with white and with inked pixels, no ink being white
C10_Witness ==
  /\ Exported /\ Quantized
  /\ ExportPalette[0] \notin InkColors
  /\ PixelCount(ExportSource) = 9
  /\ \E k \in 0..8 : \A i \in 1..5 : ~InkAt(i, k)
  /\ \E k \in 0..8 : InkAt(2, k)
  /\ \E k \in 0..8 : InkAt(1, k)

\* C11: when the five ink colours are pairwise distinct no pixel is black in
\* two layer masks; two inks of the same RGB have the same mask, and the
\* export of an initialized manager raises no error.
C11_DistinctInksDisjointMasks ==
  layers # Null =>
    /\ finalCanvas # Null => layers.result.threw = "none"
    /\ Exported =>
         /\ (\A i, j \in 1..5 : i # j => ExportPalette[i] # ExportPalette[j])
            => \A k \in 0..(PixelCount(ExportSource) - 1) :
                 \A i, j \in 1..5 : (i # j) => ~(InkAt(i, k) /\ InkAt(j, k))
         /\ \A i, j \in 1..5 :
              ExportPalette[i] = ExportPalette[j]
                => MaskOf(i).data = MaskOf(j).data

\* distinct inks with ink in two different layers
C11_Witness ==
  /\ Exported
  /\ \A i, j \in 1..5 : i # j => ExportPalette[i] # ExportPalette[j]
  /\ PixelCount(ExportSource) = 4
  /\ \E k \in 0..3 : InkAt(1, k)
  /\ \E k \in 0..3 : InkAt(2, k)

\* inks 3 and 4 are both red, and their masks have the same black pixel
C11_WitnessDuplicate ==
  /\ Exported
  /\ layers.colors[3] = layers.colors[4]
  /\ MaskOf(3).data = MaskOf(4).data
  /\ \E k \in 0..(PixelCount(ExportSource) - 1) : InkAt(3, k) /\ InkAt(4, k)

\* C12: an export cuts exactly five layers, for the palette indices 1 to 5
\* in this order and none for index 0; layer i is named by i and the i-th
\* configured ink colour, and has the width and height of the source buffer.
C12_FiveLayersInIndexOrder ==
  Exported =>
    /\ DOMAIN layers.result.masks = 0..4
    /\ \A n \in DOMAIN layers.result.masks :
         LET mask == layers.result.masks[n]
         IN  /\ mask.layerIndex = n + 1
             /\ mask.layerIndex # 0
             /\ mask.download = <<"risograph-layer", n + 1,
                                   layers.colors[n + 1], "png">>
             /\ mask.width = ExportSource.width
             /\ mask.height = ExportSource.height
             /\ DOMAIN mask.data = DOMAIN ExportSource.data

C12_Witness ==
  /\ Exported
  /\ ExportSource.width = 3 /\ ExportSource.height = 2
  /\ MaskOf(4).download = <<"risograph-layer", 4, "hffff01", "png">>
  /\ MaskOf(5).download = <<"risograph-layer", 5, "notacolor", "png">>
  /\ MaskOf(1).data # MaskOf(3).data

\* C13: the palette that buildPalette made for setPalette has exactly six
\* entries: entry 0 is (255,255,255) and entries 1..5 are the RGB of the five
\* colours in the order given; it depends on the five colours only, so two
\* calls with the same colours give the same palette.
C13_PaletteIsWhiteThenInks ==
  palette # Null =>
    /\ DOMAIN palette = 0..5
    /\ palette[0] = Arr(<<255, 255, 255>>)
    /\ \A i \in 1..5 : palette[i] = colorToRgb(colors[i])
    /\ colors = <<"black", "orange", "blue", "pink", "red">>
       => palette = Arr(<< Arr(<<255, 255, 255>>), Arr(<<0, 0, 0>>),
                           Arr(<<255, 165, 0>>), Arr(<<0, 0, 255>>),
                           Arr(<<255, 192, 203>>), Arr(<<255, 0, 0>>) >>)

\* setPalette has been called with the default inks after other inks had
\* been set, and the palette is used by a call
C13_Witness ==
  /\ colors = <<"black", "orange", "blue", "pink", "red">>
  /\ palette[2] = Arr(<<255, 165, 0>>)
  /\ outcome = "returned"
  /\ \E k \in 0..(PixelCount(imageData) - 1) :
       PixelRgb(imageData.data, k) = Arr(<<255, 165, 0>>)

C15_SameAsOriginal ==
  (outcome # "idle" /\ paletteWasSet) =>
    LET original == Original_applyDithering(before, colors, ditherMethod)
    IN  /\ original.value = imageData
        /\ (original.threw = "none") <=> (outcome = "returned")

C15_Witness ==
  /\ outcome = "returned"
  /\ ditherMethod = "sierra"
  /\ PixelCount(imageData) = 9
  /\ imageData # before
  /\ Original_applyDithering(before, colors, ditherMethod).value = imageData
  /\ \E k \in 0..8 : PixelRgb(imageData.data, k) = Arr(<<255, 192, 203>>)


\* C16: once disconnectedCallback has run, no interval timer of the element
\* is scheduled and every camera stream handed to it has been stopped.
C16_CleanAfterDisconnect ==
  lifecycle = "disconnected" =>
    /\ intervals = {}
    /\ \A s \in 1..Len(streams) : streams[s] = "stopped"

\* C17: while an uploaded image is shown the camera is not polled, and once
\* it has been closed the camera is polled again whenever a stream is ready.
C17_UploadPausesPolling ==
  /\ upload = "uploaded" => (~video_polling /\ intervals = {})
  /\ (upload = "closed" /\ lifecycle = "open" /\ video # Null
        /\ video.metadata = "loaded") => video_polling

\* C18: a tick of pollVideo that found a video with dimensions dispatched
\* exactly one IMAGE DRAWN event, its detail being the dithered buffer that
\* was on the final canvas by then; a tick that found none dispatched no
\* event and left both canvases as they were.
C18_OneEventPerReadyTick ==
  lastPoll # Null =>
    IF lastPoll.ready
    THEN /\ lastPoll.events = 1
         /\ lastPoll.detail # Null
         /\ lastPoll.shown = lastPoll.detail
    ELSE /\ lastPoll.events = 0
         /\ lastPoll.untouched

\* C19: with each of the six kernels, a call of the forEach callback writes
\* only to a pixel that comes after the current one in the row-major scan,
\* the match of a pixel writes only to that pixel, and so no sample of a
\* pixel changes once the pixel has been matched.
C19_ErrorGoesToUnvisitedPixels ==
  /\ [][ \A j \in DOMAIN imageData.data :
           imageData'.data[j] # imageData.data[j] =>
             IF scan.i = -1
             THEN j \div 4 = scan.k
             ELSE j \div 4 > scan.k ]_vars
  /\ [](/\ ditherMethod \in { "floyd-steinberg", "atkinson", "burkes",
                              "sierra", "stucki", "jarvis" }
        /\ \A i \in DOMAIN selectMatrix(ditherMethod).taps :
             LET tap == selectMatrix(ditherMethod).taps[i]
             IN  tap.y > 0 \/ (tap.y = 0 /\ tap.x > 0)
        /\ scan.target # -1 =>
             scan.target > (IF scan.i = -1 THEN scan.k - 1 ELSE scan.k))

C19_Witness ==
  /\ ditherMethod = "stucki"
  /\ scan.i >= 0
  /\ scan.k > 0
  /\ scan.target > scan.k + 1
  /\ PixelRgb(imageData.data, scan.target) # PixelRgb(before.data, scan.target)
  /\ \A p \in 0..scan.k : \E c \in DOMAIN palette : PixelRgb(imageData.data, p) = palette[c]

\* C20: the error of the pixel being distributed lies in -255..255 in each
\* channel; every sample of the buffer is an integer in 0..255 after every
\* step; and a call of the callback stores, to each sample it changes, the
\* sample's stored value plus error * factor, cut to 0..255 and rounded.
C20_ClampedAtEachContribution ==
  /\ [][ scan.i >= 0 =>
           \A j \in DOMAIN imageData.data :
             imageData'.data[j] # imageData.data[j] =>
               LET tap   == selectMatrix(ditherMethod).taps[scan.i]
                   error == IF j % 4 = 0 THEN scan.errorR
                            ELSE IF j % 4 = 1 THEN scan.errorG
                            ELSE scan.errorB
                   sum   == imageData.data[j] * tap.den + error * tap.num
                   cut   == Max(0, Min(255 * tap.den, sum))
                   got   == imageData'.data[j] * tap.den
               IN  /\ j % 4 # 3
                   /\ 2 * (got - cut) <= tap.den
                   /\ 2 * (cut - got) <= tap.den ]_vars
  /\ [](/\ scan.errorR \in -255..255
        /\ scan.errorG \in -255..255
        /\ scan.errorB \in -255..255
        /\ \A j \in DOMAIN imageData.data : imageData.data[j] \in 0..255)

C20_Witness ==
  /\ scan.again
  /\ scan.clamped
  /\ scan.target # -1
  /\ \E c \in 0..2 : imageData.data[scan.target * 4 + c] \in {0, 255}
  /\ scan.errorR # 0

\* C21: a call of the forEach callback whose target (x + dx, y + dy) is
\* outside the image changes nothing; a call whose target is inside changes
\* samples of the pixel (x + dx, y + dy) only, never of a pixel of another
\* row; the buffer keeps its indices 0 .. width*height*4 - 1 and the pixel
\* written to is one of 0 .. width*height - 1, for every kernel and size.
C21_OutOfBoundsTapSkipped ==
  /\ [][ scan.i >= 0 =>
           LET width  == imageData.width
               height == imageData.height
               tap    == selectMatrix(ditherMethod).taps[scan.i]
               x2     == (scan.k % width) + tap.x
               y2     == (scan.k \div width) + tap.y
           IN  IF x2 >= 0 /\ x2 < width /\ y2 >= 0 /\ y2 < height
               THEN \A j \in DOMAIN imageData.data :
                      imageData'.data[j] # imageData.data[j] =>
                        /\ (j \div 4) % width = x2
                        /\ (j \div 4) \div width = y2
               ELSE imageData'.data = imageData.data ]_vars
  /\ [](/\ DOMAIN imageData.data
             = 0..(imageData.width * imageData.height * 4 - 1)
        /\ scan.target \in -1..(imageData.width * imageData.height - 1)
        /\ scan.k \in 0..(imageData.width * imageData.height))

\* a single-column image: the entry (dx, dy) = (1, 0) or (-1, 1) of the last
\* call pointed beside the column, at an index that exists in the buffer,
\* and the call was skipped
C21_Witness ==
  /\ imageData.width = 1
  /\ imageData.height = 3
  /\ scan.i >= 1
  /\ scan.target = -1
  /\ LET tap == selectMatrix(ditherMethod).taps[scan.i - 1]
         idx == ((scan.k + tap.y) * imageData.width + tap.x) * 4
     IN  /\ tap.x # 0
         /\ idx \in DOMAIN imageData.data
         /\ scan.errorR # 0
         /\ imageData.data[idx] = before.data[idx]

\* C22: a call of applyDithering with one of the six kernels on a buffer
\* whose pixels all have the RGB of a palette entry leaves the buffer as it
\* is; so does a second call that follows a call that returned.
C22_ZeroErrorFixedPoint ==
  [][ ( /\ imageData # Null /\ imageData' # Null
        /\ outcome' # "idle"
        /\ palette # Null
        /\ ditherMethod \in DOMAIN getDiffusionMatrices
        /\ \/ \A k \in 0..(PixelCount(imageData) - 1) :
                PixelRgb(imageData.data, k) \in PaletteColors(palette)
           \/ outcome = "returned" )
      => (imageData' = imageData /\ outcome' = "returned") ]_vars

\* the 2x2 all-white buffer has been dithered with floyd-steinberg and is
\* still all white
C22_Witness ==
  /\ outcome = "returned"
  /\ ditherMethod = "floyd-steinberg"
  /\ before # Null
  /\ before.width = 2 /\ before.height = 2
  /\ \A k \in 0..3 : PixelRgb(before.data, k) = Arr(<<255, 255, 255>>)
  /\ imageData = before

\* a second call with a kernel has followed a call that changed the buffer
C22_WitnessTwice ==
  /\ outcome = "returned"
  /\ ditherMethod = "jarvis"
  /\ imageData = before
  /\ PixelCount(imageData) = 9
  /\ \E k \in 0..8 : PixelRgb(imageData.data, k) = Arr(<<0, 0, 0>>)
  /\ \E k \in 0..8 : PixelRgb(imageData.data, k) = Arr(<<255, 255, 255>>)

\* the sum of the weights of the entries i, i+1, ... of a table, in units of
\* 1/unit (unit is a multiple of every denominator of the table)
RECURSIVE WeightSum(_, _, _)
WeightSum(taps, i, unit) ==
  IF i >= ArrLen(taps) THEN 0
  ELSE taps[i].num * (unit \div taps[i].den) + WeightSum(taps, i + 1, unit)

\* C23: the tables are those of the six kernels and no other; the selected
\* one has 4, 6, 7, 10, 12 or 12 entries, each with a positive weight and an
\* offset below the pixel, or right of it in its row; the weights sum to 3/4
\* for atkinson and to 1 for the others; with 'threshold' there is no table
\* and applyDithering gives what applyThresholdDithering gives.
C23_KernelTables ==
  /\ DOMAIN getDiffusionMatrices
       = { "floyd-steinberg", "atkinson", "burkes", "sierra", "stucki", "jarvis" }
  /\ ditherMethod \in DOMAIN getDiffusionMatrices =>
       LET taps == selectMatrix(ditherMethod).taps
       IN  /\ ArrLen(taps) = CASE ditherMethod = "floyd-steinberg" -> 4
                               [] ditherMethod = "atkinson" -> 6
                               [] ditherMethod = "burkes" -> 7
                               [] ditherMethod = "sierra" -> 10
                               [] OTHER -> 12
           /\ \A i \in DOMAIN taps :
                /\ taps[i].num > 0 /\ taps[i].den > 0
                /\ 672 % taps[i].den = 0
                /\ taps[i].y >= 0
                /\ taps[i].y = 0 => taps[i].x > 0
           /\ WeightSum(taps, 0, 672)
                = (IF ditherMethod = "atkinson" THEN 504 ELSE 672)
  /\ (ditherMethod = "threshold" /\ outcome = "returned") =>
       imageData = applyThresholdDithering(before, palette).value

\* a call with the atkinson table has returned a buffer that the threshold
\* path would not have produced
C23_Witness ==
  /\ outcome = "returned"
  /\ ditherMethod = "atkinson"
  /\ PixelCount(imageData) = 9
  /\ imageData # applyThresholdDithering(before, palette).value
  /\ before # imageData

\* C30: an export leaves the final canvas as it is, and the buffer it read
\* is still what the canvas holds; each of the five masks is a buffer of its
\* own of the same length, every mask pixel has alpha 255, and a source
\* pixel with the RGB of an ink is black in that ink's mask whatever its
\* alpha is, a fully transparent one included.
C30_SourceKeptAlphaIgnored ==
  /\ [][finalCanvas' = finalCanvas]_vars
  /\ [](Exported =>
          /\ ExportSource = getImageData(finalCanvas, finalCanvas.width,
                                         finalCanvas.height)
          /\ \A i \in 1..5 :
               /\ DOMAIN MaskOf(i).data = DOMAIN ExportSource.data
               /\ \A k \in 0..(PixelCount(ExportSource) - 1) :
                    /\ MaskOf(i).data[k * 4 + 3] = 255
                    /\ PixelRgb(ExportSource.data, k) = ExportPalette[i]
                         => InkAt(i, k))

\* a canvas on which nothing has been drawn is transparent black: with black
\* as the first ink its pixels are inked in the first mask
C30_Witness ==
  /\ Exported
  /\ layers.colors[1] = "black"
  /\ PixelCount(ExportSource) = 4
  /\ \A k \in 0..3 :
       /\ ExportSource.data[k * 4 + 3] = 0
       /\ InkAt(1, k)
       /\ ~InkAt(2, k)

\* C26: at most one interval timer of the element is scheduled, and
\* video_polling is true exactly when one is.
C26_OneTimerIffPolling ==
  /\ Cardinality(intervals) <= 1
  /\ video_polling <=> intervals # {}

\* C27: every camera stream handed to startStream, other than the one held
\* in this.stream, has been stopped; after destroy all have been stopped.
C27_OneLiveStream ==
  /\ \A s \in 1..Len(streams) : s # stream => streams[s] = "stopped"
  /\ video = Null /\ lifecycle = "disconnected" =>
       \A s \in 1..Len(streams) : streams[s] = "stopped"

\* C24: at most one invocation of pollVideo is suspended between its
\* drawImage and its getImageData, whatever timers tick and whatever the
\* user does, and the scratch canvas holds the frame that this invocation
\* drew: the buffer it will dither is read from a canvas that no other
\* invocation has written to, and one dithering has ended before the next
\* begins.
C24_DitheringSerialized ==
  /\ Len(inflight) <= 1
  /\ inflight # << >> =>
       /\ scratchCanvas = inflight[1].drew
       /\ inflight[1].timer \in intervals

\* two timers are scheduled, a frame has been dithered by an earlier tick,
\* and a tick is suspended
C24_Witness ==
  /\ Cardinality(intervals) = 2
  /\ inflight # << >>
  /\ lastPoll # Null
  /\ lastPoll.ready
  /\ lastPoll.events = 1
  /\ finalCanvas # BlankCanvas(eyeSize[1], eyeSize[2])

\* C25: every pixel of the buffer the last export read from the final
\* canvas has the RGB of an entry of the palette built from the five
\* colours the element had at that export.
C25_ExportReadsDitheredPixels ==
  Exported =>
    \A k \in 0..(PixelCount(ExportSource) - 1) :
      PixelRgb(ExportSource.data, k) \in PaletteColors(ExportPalette)

\* C28: once openEYE has run, the element has an image processor with a
\* palette set.
C28_OpenHasProcessor ==
  lifecycle \in {"open", "failed"} =>
    /\ imageProcessor # Null
    /\ palette # Null
    /\ paletteWasSet

\* C29: while the element has an image processor whose palette is set, the
\* palette is buildPalette of the five colour fields and the method of the
\* processor is the field dither_method.
C29_ProcessorFollowsSettings ==
  (imageProcessor # Null /\ palette # Null) =>
    /\ palette = buildPalette(colors[1], colors[2], colors[3], colors[4],
                              colors[5])
    /\ ditherMethod = dither_method

\* the colour picker and the selector have been used, and a frame has been
\* dithered with what they set
C29_Witness ==
  /\ lifecycle = "open"
  /\ colors[1] = "hffff01"
  /\ dither_method = "threshold"
  /\ attribute = "constructor"
  /\ palette = buildPalette(colors[1], colors[2], colors[3], colors[4],
                            colors[5])
  /\ lastPoll # Null
  /\ lastPoll.events = 1
  /\ finalCanvas = applyThresholdDithering(scratchCanvas, palette).value

\* the palette was set by a colour attribute before the element was opened
C29_WitnessBeforeOpen ==
  /\ lifecycle = "created"
  /\ palette # Null
  /\ attribute = "constructor"
  /\ ditherMethod = "constructor"

=========================================================================
